---- MODULE Spec2Model ----
(***************************************************************************)
(* sdl3-gpu-minimal: the device/window context, the static resource        *)
(* uploader and the per-frame renderer of four tutorial stages.            *)
(*                                                                         *)
(*   "clear"      unnamed/part_006   clear screen, no scene                *)
(*   "instanced"  unnamed/part_007   instanced shapes (literal 16 instances)*)
(*   "single"     sdl3-min-src.cpp   instanced textured cubes, one file    *)
(*   "refactored" src/main.cpp (second program) + sdl3-init.cppm +         *)
(*                unnamed/part_008 (sdl3_scene) + unnamed/part_009 (logs)  *)
(*                                                                         *)
(* A program is modelled by the sequence of native calls each of its       *)
(* functions makes (one record per call, in source order) and by the       *)
(* state of main: the owning pointers of the context and of the scene, the *)
(* quit flag and the small UI state.  `calls` is the history of the native *)
(* calls made so far.  msg::error is the assert of the Debug build, the    *)
(* only build the repository configures (CMakePresets.json): a false       *)
(* condition prints the diagnostic and ends the process.                   *)
(*                                                                         *)
(* Sizes and offsets are counted in 4-byte words: every payload is an      *)
(* array of 4-byte-aligned elements, and a uint32_t holds 2^30 words.      *)
(***************************************************************************)
EXTENDS Integers, Sequences, FiniteSets, TLC

VARIABLES
    variant,         \* which program runs
    pc,              \* the statement of main that runs next
    calls,           \* history of native calls
    owned,           \* handles held by a non-null owning pointer of ctx / scn
    quit,            \* the quit flag
    active_sampler,  \* frame_context::active_sampler ("single")
    angle,           \* main's camera angle, in half degrees ("refactored")
    view_proj,       \* the view-projection bytes handed to draw
    iter,            \* event-loop iteration that is running (0 before the loop)
    payload,         \* byte spans handed to the uploader, sizes in words
    texture,         \* io::image_data handed to the uploader
    file,            \* the texture file on disk
    backend_formats  \* shader formats the backend of the device takes

vars == <<variant, pc, calls, owned, quit, active_sampler, angle, view_proj,
          iter, payload, texture, file, backend_formats>>

(***************************************************************************)
(* Bounds of the model.                                                    *)
(***************************************************************************)
\* Event-loop iterations before the environment closes the window.
MaxFrames == 2
\* Layers and mip levels of the texture file.
MaxLayers == 2
MaxMips == 2
\* Native calls that fail in one run of the program.
MaxFaults == 1

(***************************************************************************)
(* Program constants.                                                      *)
(***************************************************************************)
\* uint32_t holds 2^32 bytes = 2^30 words.
UINT32_WORDS == 1073741824
\* sizeof(app::vertex) = vec3 + vec2 = 20 bytes
VERTEX_WORDS == 5
\* sizeof(glm::mat4) = 64 bytes
MAT4_WORDS == 16
\* sizeof(app::pos_clr_vertex) = 3 floats + 4 bytes = 16 bytes
POS_CLR_VERTEX_WORDS == 4
\* the cube: 6 faces of 4 vertices, 6 indices a face
CUBE_VERTICES == 24
CUBE_INDICES == 36
\* the instance count written as a literal in the instanced variant's draw
LITERAL_INSTANCES == 16
\* the grid overlay draw: 6 vertices
GRID_VERTICES == 6
\* frame::create_samplers: rndr.active_sampler = 5
INITIAL_SAMPLER == 5
\* angle limit of app::update, 360 degrees in half degrees
ANGLE_LIMIT == 720

Variants == {"clear", "instanced", "single", "refactored"}

U32(n) == n % UINT32_WORDS

(***************************************************************************)
(* One native call of a function body.                                     *)
(*   sub      the source function that makes the call                      *)
(*   op       the native function called                                   *)
(*   h        the result it yields (a handle, a mapping, a pass), or the   *)
(*            handle it releases; "" when it yields nothing                *)
(*   args     the earlier results it is handed                             *)
(*   fallible it can return null / false                                   *)
(*   checked  msg::error tests its result right after the call             *)
(*   p        its numeric arguments                                        *)
(***************************************************************************)
Call(sub, op, h, args, fallible, checked, p) ==
    [sub |-> sub, op |-> op, h |-> h, args |-> args,
     fallible |-> fallible, checked |-> checked, p |-> p]

\* A fallible call whose result msg::error tests immediately.
Checked(sub, op, h, args, p) == Call(sub, op, h, args, TRUE, TRUE, p)
\* A fallible call whose result is used without a test.
Unchecked(sub, op, h, args, p) == Call(sub, op, h, args, TRUE, FALSE, p)
\* A call that cannot fail on valid arguments.
Plain(sub, op, h, args, p) == Call(sub, op, h, args, FALSE, FALSE, p)

CreateOps == {"SDL_CreateGPUDevice", "SDL_CreateWindow", "SDL_CreateGPUShader",
              "SDL_CreateGPUGraphicsPipeline", "SDL_CreateGPUBuffer",
              "SDL_CreateGPUTexture", "SDL_CreateGPUSampler",
              "SDL_CreateGPUTransferBuffer"}
ReleaseOps == {"SDL_DestroyGPUDevice", "SDL_DestroyWindow", "SDL_ReleaseGPUShader",
               "SDL_ReleaseGPUGraphicsPipeline", "SDL_ReleaseGPUBuffer",
               "SDL_ReleaseGPUTexture", "SDL_ReleaseGPUSampler",
               "SDL_ReleaseGPUTransferBuffer"}
\* Reading through a null pointer is undefined: the process may crash there.
DerefOps == {"memcpy"}

(***************************************************************************)
(* msg::error and the execution of a function body.                        *)
(*                                                                         *)
(* `f` is the call of the body that fails (0: none); `ub` says what a      *)
(* dereference of a null pointer does ("crash" or "continue").  A checked  *)
(* failing call is followed by the diagnostic and the process ends; an     *)
(* unchecked one hands its null result on to the calls that use it.        *)
(***************************************************************************)
\* Call c yields a result that later calls can be handed.
Yields(c) == c.h # "" /\ c.op \notin ReleaseOps

\* The call before call i that defined the result named x (0: none in prog).
DefSite(prog, i, x) ==
    LET ds == {k \in 1..(i - 1) : Yields(prog[k]) /\ prog[k].h = x}
    IN IF ds = {} THEN 0 ELSE CHOOSE k \in ds : \A j \in ds : j <= k

\* Longest chain of results derived from one another in a function body
\* (command buffer -> swapchain texture -> render pass).
ChainDepth == 3

\* The calls whose result is null: the failing call f, and the calls that
\* derive their result from a null one, through at most d derivations.
RECURSIVE NullDefs(_, _, _)
NullDefs(prog, f, d) ==
    IF f = 0 THEN {}
    ELSE IF d = 0 THEN {f}
    ELSE LET before == NullDefs(prog, f, d - 1)
         IN before \cup {k \in (f + 1)..Len(prog) :
                           /\ Yields(prog[k])
                           /\ \E x \in prog[k].args : DefSite(prog, k, x) \in before}

\* Call i is handed a null / failed result.
GetsFailed(prog, f, i) ==
    /\ f # 0
    /\ i > f
    /\ \E x \in prog[i].args : DefSite(prog, i, x) \in NullDefs(prog, f, ChainDepth)

\* msg::error with the assert compiled out: it prints and returns.
MsgErrorPrintsOnly(condition) == TRUE

\* msg::error(condition, ...): TRUE when it returns to its caller.
MsgErrorReturns(condition) == condition

\* The index of the last call the body makes, and how the body ends.
\* A checked call that fails: msg::error does not return.
AbortAt(prog, f) ==
    IF f > 0 /\ prog[f].checked /\ ~MsgErrorReturns(FALSE) THEN f ELSE 0

CrashAt(prog, f, ub) ==
    LET hit == {i \in 1..Len(prog) : prog[i].op \in DerefOps /\ GetsFailed(prog, f, i)}
    IN IF ub = "crash" /\ hit # {}
       THEN CHOOSE i \in hit : \A j \in hit : i <= j
       ELSE 0

Outcome(prog, f, ub) ==
    IF AbortAt(prog, f) > 0 THEN "aborted"
    ELSE IF CrashAt(prog, f, ub) > 0 THEN "crashed"
    ELSE "returned"

LastCall(prog, f, ub) ==
    IF AbortAt(prog, f) > 0 THEN AbortAt(prog, f)
    ELSE IF CrashAt(prog, f, ub) > 0 THEN CrashAt(prog, f, ub)
    ELSE Len(prog)

\* The diagnostic msg::error prints for a failed check.
Diagnostic(fn, c, it) ==
    [fn |-> fn, sub |-> c.sub, op |-> "msg::error", h |-> "", args |-> {c.h},
     p |-> <<>>, fallible |-> FALSE, checked |-> FALSE, ok |-> TRUE, bad |-> FALSE,
     it |-> it]

\* The history entries of one run of body `prog` of top-level operation `fn`.
Exec(fn, prog, f, ub, it) ==
    LET n == LastCall(prog, f, ub)
        made == [i \in 1..n |->
                    [fn |-> fn, sub |-> prog[i].sub, op |-> prog[i].op,
                     h |-> prog[i].h, args |-> prog[i].args, p |-> prog[i].p,
                     fallible |-> prog[i].fallible, checked |-> prog[i].checked,
                     ok |-> (i # f), bad |-> GetsFailed(prog, f, i), it |-> it]]
    IN IF AbortAt(prog, f) > 0
       THEN made \o <<Diagnostic(fn, prog[f], it)>>
       ELSE made

\* The native calls of a history that failed.
Failed(e) == ~e.ok
Faults(es) == Len(SelectSeq(es, Failed))

\* The failures a body can meet after history es: none, or one of its
\* fallible calls.
Failures(prog, es) ==
    {0} \cup {i \in 1..Len(prog) : prog[i].fallible /\ Faults(es) < MaxFaults}

UBOutcomes == {"crash", "continue"}

(***************************************************************************)
(* Device / window context.                                                *)
(***************************************************************************)
\* sdl3::init_context (refactored): the window is created before the device.
init_context ==
    <<Checked("init_context", "SDL_Init", "", {}, <<>>),
      Checked("init_context", "SDL_CreateWindow", "window", {}, <<1920, 1080>>),
      Checked("init_context", "SDL_CreateGPUDevice", "gpu", {}, <<>>),
      Plain("init_context", "SDL_GetGPUDeviceDriver", "", {"gpu"}, <<>>),
      Checked("init_context", "SDL_ClaimWindowForGPUDevice", "", {"gpu", "window"}, <<>>)>>

\* base::init (single-file programs): the device is created before the window.
\* The clear-screen stage does not ask for the driver name.
base_init(v) ==
    <<Checked("init", "SDL_Init", "", {}, <<>>),
      Checked("init", "SDL_CreateGPUDevice", "gpu", {}, <<>>)>>
    \o (IF v = "clear" THEN <<>>
        ELSE <<Plain("init", "SDL_GetGPUDeviceDriver", "", {"gpu"}, <<>>)>>)
    \o <<Checked("init", "SDL_CreateWindow", "window", {}, <<1920, 1080>>),
         Checked("init", "SDL_ClaimWindowForGPUDevice", "", {"gpu", "window"}, <<>>)>>

InitContextCalls(v) == IF v = "refactored" THEN init_context ELSE base_init(v)

\* The members of the context, in declaration order.
ContextMembers(v) ==
    IF v = "refactored" THEN <<"window", "gpu">> ELSE <<"gpu", "window">>

\* The native function an owning pointer's deleter calls.
Deleter(h) ==
    CASE h = "gpu" -> "SDL_DestroyGPUDevice"
      [] h = "window" -> "SDL_DestroyWindow"
      [] h \in {"vs_shdr0", "fs_shdr0", "vs_shdr1", "fs_shdr1"} -> "SDL_ReleaseGPUShader"
      [] h \in {"pipeline", "pipelines0", "pipelines1"} -> "SDL_ReleaseGPUGraphicsPipeline"
      [] h \in {"vertex_buffer", "index_buffer", "instance_buffer"} -> "SDL_ReleaseGPUBuffer"
      [] h \in {"depth_texture", "uv_texture", "grid_texture"} -> "SDL_ReleaseGPUTexture"
      [] h \in {"uv_sampler", "samplers0", "samplers1", "samplers2", "samplers3",
                "samplers4", "samplers5"} -> "SDL_ReleaseGPUSampler"
      [] OTHER -> "SDL_ReleaseGPUTransferBuffer"

\* sdl_deleter / gpu_deleter: fn(arg) resp. fn(gpu, arg).
DeleterCall(sub, h) ==
    Plain(sub, Deleter(h), h, IF h \in {"gpu", "window"} THEN {h} ELSE {"gpu", h}, <<>>)

\* unique_ptr::reset / move assignment / destructor of the members `ms` in
\* order: the deleter runs for each non-null pointer, which is null afterwards.
RECURSIVE ResetAll(_, _, _)
ResetAll(sub, ms, held) ==
    IF ms = <<>> THEN <<>>
    ELSE (IF Head(ms) \in held THEN <<DeleterCall(sub, Head(ms))>> ELSE <<>>)
         \o ResetAll(sub, Tail(ms), held)

\* Pointers that keep their value after their deleter ran.
HeldAfterRelease(ms, held) == held

\* The pointers that are non-null after `x = {}` over the members ms.
HeldAfterReset(ms, held) == held \ {ms[i] : i \in 1..Len(ms)}

\* destroy_context with the handles reset before the window is unclaimed.
DestroyContextResetFirst(v, held) ==
    LET sub == IF v = "refactored" THEN "destroy_context" ELSE "destroy"
    IN ResetAll(sub, ContextMembers(v), held)
       \o <<Plain(sub, "SDL_ReleaseWindowFromGPUDevice", "", {"gpu", "window"}, <<>>),
            Plain(sub, "SDL_Quit", "", {}, <<>>)>>

\* destroy_context / base::destroy: unclaim, ctx = {}, SDL_Quit.
DestroyContextCalls(v, held) ==
    LET sub == IF v = "refactored" THEN "destroy_context" ELSE "destroy"
    IN <<Plain(sub, "SDL_ReleaseWindowFromGPUDevice", "", {"gpu", "window"}, <<>>)>>
       \o ResetAll(sub, ContextMembers(v), held)
       \o <<Plain(sub, "SDL_Quit", "", {}, <<>>)>>

(***************************************************************************)
(* Texture files.  The decoder (dds-ktx) is an external library: a file is *)
(* its header (data_offset words) followed by the sub-images, layer by     *)
(* layer, each layer's mip chain in order.                                 *)
(***************************************************************************)
\* DDS header: 128 bytes
DDS_HEADER_WORDS == 32
\* a 4x4 block of BC1: 8 bytes
BC1_BLOCK_WORDS == 2
\* width and height of the top mip level, in pixels
TEXTURE_WIDTH == 8

Max(a, b) == IF a >= b THEN a ELSE b

RECURSIVE Halved(_, _)
Halved(w, m) == IF m = 0 THEN w ELSE Halved(Max(1, w \div 2), m - 1)

\* Side of mip level m, and the words its blocks take.
MipSide(fl, m) == Halved(fl.width, m)
MipWords(fl, m) ==
    LET b == (MipSide(fl, m) + 3) \div 4 IN b * b * BC1_BLOCK_WORDS

RECURSIVE MipChainWords(_, _)
MipChainWords(fl, m) ==
    IF m = 0 THEN 0 ELSE MipChainWords(fl, m - 1) + MipWords(fl, m - 1)

\* ddsktx_get_sub: where sub-image (layer, mip) starts in the file, and its size.
ddsktx_get_sub(fl, layer, mip) ==
    [buff |-> fl.data_offset + layer * MipChainWords(fl, fl.num_mips)
                             + MipChainWords(fl, mip),
     width |-> MipSide(fl, mip), height |-> MipSide(fl, mip)]

Files ==
    {[num_layers |-> l, num_mips |-> m, width |-> TEXTURE_WIDTH,
      data_offset |-> DDS_HEADER_WORDS,
      size |-> DDS_HEADER_WORDS
               + l * MipChainWords([width |-> TEXTURE_WIDTH], m)] :
        l \in 1..MaxLayers, m \in 1..MaxMips}

\* The texture main loads: one layer with a full mip chain.
AssetFile ==
    CHOOSE fl \in Files : fl.num_layers = 1 /\ fl.num_mips = MaxMips

NoFile == [num_layers |-> 0, num_mips |-> 0, width |-> 0, data_offset |-> 0, size |-> 0]

\* read_file: the words of the file; each word is told apart by its place.
FileWords(fl) == [i \in 1..fl.size |-> i - 1]

\* The buffer returned with the header still in front.
erase_header_kept(data, n) == data

\* image_file_data.erase(begin, begin + data_offset)
erase_header(data, n) == SubSeq(data, n + 1, Len(data))

\* read_image_file as it would be if the offsets stayed relative to the file.
read_image_file_file_offsets(fl) ==
    [layer_count |-> fl.num_layers,
     mipmap_count |-> fl.num_mips,
     sub_images |->
        [k \in 1..(fl.num_layers * fl.num_mips) |->
            LET layer == (k - 1) \div fl.num_mips
                mip == (k - 1) % fl.num_mips
                sub == ddsktx_get_sub(fl, layer, mip)
            IN [layer_index |-> layer, mipmap_index |-> mip,
                offset |-> sub.buff,
                width |-> sub.width, height |-> sub.height]],
     size |-> Len(erase_header(FileWords(fl), fl.data_offset)),
     data |-> erase_header(FileWords(fl), fl.data_offset),
     format |-> "BC1_RGBA_UNORM"]

\* io::read_image_file: the sub-images of the cartesian product layers x mips,
\* offsets relative to the pixel data, and the file without its header.
read_image_file(fl) ==
    [layer_count |-> fl.num_layers,
     mipmap_count |-> fl.num_mips,
     sub_images |->
        [k \in 1..(fl.num_layers * fl.num_mips) |->
            LET layer == (k - 1) \div fl.num_mips
                mip == (k - 1) % fl.num_mips
                sub == ddsktx_get_sub(fl, layer, mip)
            IN [layer_index |-> layer, mipmap_index |-> mip,
                offset |-> sub.buff - fl.data_offset,
                width |-> sub.width, height |-> sub.height]],
     size |-> Len(erase_header(FileWords(fl), fl.data_offset)),
     data |-> erase_header(FileWords(fl), fl.data_offset),
     format |-> "BC1_RGBA_UNORM"]

NoTexture ==
    [layer_count |-> 0, mipmap_count |-> 0, sub_images |-> <<>>, size |-> 0,
     data |-> <<>>, format |-> "INVALID"]

\* io::read_file: open the file (checked), read it.
read_file(name) == <<Checked("read_file", "std::ifstream", name, {}, <<>>)>>

\* The calls of io::read_image_file: read the file, parse it (checked).
read_image_file_calls ==
    read_file("image_file_data")
    \o <<Checked("read_image_file", "ddsktx_parse", "image_data_header",
                 {"image_file_data"}, <<>>)>>

(***************************************************************************)
(* What main builds before the scene: meshes, instances, files.            *)
(***************************************************************************)
\* The 24 vertices of the cube, four per face: the signs of the position and
\* the texture coordinate.
CubeCorners ==
    << \* +X face
       <<1, -1, -1, 0, 1>>, <<1, -1, 1, 0, 0>>, <<1, 1, 1, 1, 0>>, <<1, 1, -1, 1, 1>>,
       \* -X face
       <<-1, -1, -1, 0, 1>>, <<-1, 1, -1, 1, 1>>, <<-1, 1, 1, 1, 0>>, <<-1, -1, 1, 0, 0>>,
       \* +Y face
       <<-1, 1, -1, 0, 1>>, <<1, 1, -1, 1, 1>>, <<1, 1, 1, 1, 0>>, <<-1, 1, 1, 0, 0>>,
       \* -Y face
       <<-1, -1, -1, 0, 1>>, <<-1, -1, 1, 0, 0>>, <<1, -1, 1, 1, 0>>, <<1, -1, -1, 1, 1>>,
       \* +Z face
       <<-1, -1, 1, 0, 1>>, <<-1, 1, 1, 0, 0>>, <<1, 1, 1, 1, 0>>, <<1, -1, 1, 1, 1>>,
       \* -Z face
       <<-1, -1, -1, 0, 1>>, <<1, -1, -1, 1, 1>>, <<1, 1, -1, 1, 0>>, <<-1, 1, -1, 0, 0>> >>

\* face_0 with both triangles wound the other way.
face_0_clockwise == <<0, 2, 1, 0, 3, 2>>

\* The two triangles of face 0 in the single-file program.
face_0 == <<0, 1, 2, 0, 2, 3>>

\* make_cube with the face stride applied to the position in face_0.
make_cube_stride_on_position(v) ==
    [vertices |-> CubeCorners,
     indices |-> [k \in 1..(6 * Len(face_0)) |->
                    face_0[((k - 1) % Len(face_0)) + 1] + ((k - 1) % Len(face_0)) * 4]]

\* app::make_cube.  The single-file program computes the indices,
\* v_idx + f_idx * 4 over the product faces x face_0; the refactored program
\* writes them out.
make_cube(v) ==
    [vertices |-> CubeCorners,
     indices |->
        IF v = "single"
        THEN [k \in 1..(6 * Len(face_0)) |->
                 face_0[((k - 1) % Len(face_0)) + 1] + ((k - 1) \div Len(face_0)) * 4]
        ELSE <<0, 1, 2, 2, 3, 0,
               4, 5, 6, 6, 7, 4,
               8, 9, 10, 10, 11, 8,
               12, 13, 14, 14, 15, 12,
               16, 17, 18, 18, 19, 16,
               20, 21, 22, 22, 23, 20>>]

\* The mesh main hands to init: the cube, the quad of the instanced stage,
\* nothing in the clear-screen stage.
Shape(v) ==
    CASE v \in {"refactored", "single"} -> make_cube(v)
      [] v = "instanced" -> [vertices |-> <<<<-1, -1>>, <<1, -1>>, <<1, 1>>, <<-1, 1>>>>,
                            indices |-> <<0, 1, 2, 0, 2, 3>>]
      [] OTHER -> [vertices |-> <<>>, indices |-> <<>>]

\* vertex_count, index_count, instance_count handed to init.
MeshCounts(v) ==
    CASE v = "refactored" -> [vertex_count |-> CUBE_VERTICES, index_count |-> CUBE_INDICES,
                              instance_count |-> 3]
      [] v = "single" -> [vertex_count |-> CUBE_VERTICES, index_count |-> CUBE_INDICES,
                          instance_count |-> 2]
      [] v = "instanced" -> [vertex_count |-> 4, index_count |-> 6, instance_count |-> 0]
      [] OTHER -> [vertex_count |-> 0, index_count |-> 0, instance_count |-> 0]

\* io::as_byte_span of the vertices, indices and instances: sizes in words.
MeshPayload(v) ==
    [v |-> MeshCounts(v).vertex_count
             * (IF v = "instanced" THEN POS_CLR_VERTEX_WORDS ELSE VERTEX_WORDS),
     i |-> MeshCounts(v).index_count,
     n |-> MeshCounts(v).instance_count * MAT4_WORDS,
     mesh |-> Shape(v)]

\* The files main reads itself: the refactored main reads the texture and the
\* four shader binaries before init_context; the single-file programs read the
\* texture after base::init (their shaders are read by create_pipelines).
LoadAssetsCalls(v) ==
    CASE v = "refactored" ->
            read_image_file_calls
            \o read_file("vs_bin") \o read_file("fs_bin")
            \o read_file("grid_vs_bin") \o read_file("grid_fs_bin")
      [] v \in {"single", "instanced"} -> read_image_file_calls
      [] OTHER -> <<>>

(***************************************************************************)
(* Shaders, pipelines, buffers, textures, samplers.                        *)
(***************************************************************************)
\* The shader formats of SDL_GPUShaderFormat the backends take.
ShaderFormats == {"DXBC", "DXIL", "SPIRV", "MSL"}

\* SDL_CreateGPUDevice(SDL_GPU_SHADERFORMAT_DXIL | SDL_GPU_SHADERFORMAT_SPIRV, ...)
RequestedFormats == {"DXIL", "SPIRV"}

\* What a backend can take: any set of formats.
AllBackends == SUBSET ShaderFormats

\* The backends of the platforms main is built for: Direct3D 12 and Vulkan.
MainBackends == {{"DXBC", "DXIL"}, {"SPIRV"}}

\* SDL_CreateGPUDevice gives a device of a backend that takes one of the
\* formats the application can provide: what SDL_GetGPUShaderFormats can
\* report for it.
SDL_CreateGPUDevice(format_flags, backends) ==
    {b \in backends : b \cap format_flags # {}}

\* The format lambda of shader creation with the native format hard-wired.
shader_format_always_dxil(formats) == "DXIL"

\* The format lambda of make_gpu_shader / load_gpu_shader.
shader_format(formats) == IF "DXIL" \in formats THEN "DXIL" ELSE "SPIRV"

\* The history with what SDL_GetGPUShaderFormats returned and the format
\* member of the SDL_GPUShaderCreateInfo handed to SDL_CreateGPUShader.
WithShaderFormats(es, formats) ==
    [k \in 1..Len(es) |->
        IF es[k].op = "SDL_GetGPUShaderFormats" THEN [es[k] EXCEPT !.p = <<formats>>]
        ELSE IF es[k].op = "SDL_CreateGPUShader"
        THEN [es[k] EXCEPT !.p = <<shader_format(formats)>>]
        ELSE es[k]]

\* constexpr auto DEPTH_FORMAT of the refactored program.
DEPTH_FORMAT == "D24_UNORM_S8_UINT"

\* pipeline_desc::depth_test of the two pipelines main describes.
depth_test(d) == <<TRUE, TRUE>>[d + 1]

\* What SDL_GetGPUSwapchainTextureFormat returns for the claimed window.
SwapchainTextureFormat(wnd) == <<"swapchain texture format", wnd>>

VsName(d) == <<"vs_shdr0", "vs_shdr1">>[d + 1]
FsName(d) == <<"fs_shdr0", "fs_shdr1">>[d + 1]
PipelineName(d) == <<"pipelines0", "pipelines1">>[d + 1]
SamplerName(k) ==
    <<"samplers0", "samplers1", "samplers2", "samplers3", "samplers4", "samplers5">>[k + 1]

\* make_gpu_shader (refactored): ask the formats the device takes, create.
make_gpu_shader(h) ==
    <<Plain("make_gpu_shader", "SDL_GetGPUShaderFormats", "", {"gpu"}, <<>>),
      Checked("make_gpu_shader", "SDL_CreateGPUShader", h, {"gpu"}, <<>>)>>

\* load_gpu_shader (single-file programs): ask the formats the device takes,
\* create from the bytes read.
load_gpu_shader(h, bin) ==
    <<Plain("load_gpu_shader", "SDL_GetGPUShaderFormats", "", {"gpu"}, <<>>),
      Checked("load_gpu_shader", "SDL_CreateGPUShader", h, {"gpu", bin}, <<>>)>>

\* make_gfx_pipeline (refactored) for pipeline description d: both shaders,
\* the swapchain format, the pipeline; the local shader pointers are
\* destroyed when the function returns, in reverse order of declaration.
make_gfx_pipeline(d) ==
    make_gpu_shader(VsName(d))
    \o make_gpu_shader(FsName(d))
    \o <<Plain("make_gfx_pipeline", "SDL_GetGPUSwapchainTextureFormat", "",
               {"gpu", "window"}, <<SwapchainTextureFormat("window")>>),
         Checked("make_gfx_pipeline", "SDL_CreateGPUGraphicsPipeline", PipelineName(d),
                 {"gpu", VsName(d), FsName(d)},
                 <<SwapchainTextureFormat("window"), DEPTH_FORMAT, depth_test(d)>>),
         DeleterCall("make_gfx_pipeline", FsName(d)),
         DeleterCall("make_gfx_pipeline", VsName(d))>>

\* frame::create_pipelines (single-file programs): read both shader binaries,
\* create the shaders and the pipeline; the shaders are released on return.
create_pipelines(v) ==
    read_file("vs_bin")
    \o read_file("fs_bin")
    \o load_gpu_shader("vs_shdr0", "vs_bin")
    \o load_gpu_shader("fs_shdr0", "fs_bin")
    \o <<Plain("create_pipelines", "SDL_GetGPUSwapchainTextureFormat", "",
               {"gpu", "window"}, <<SwapchainTextureFormat("window")>>),
         Checked("create_pipelines", "SDL_CreateGPUGraphicsPipeline", "pipeline",
                 {"gpu", "vs_shdr0", "fs_shdr0"},
                 IF v = "single"
                 THEN <<SwapchainTextureFormat("window"), "D16_UNORM", TRUE>>
                 ELSE <<SwapchainTextureFormat("window"), "INVALID", FALSE>>),
         DeleterCall("create_pipelines", "fs_shdr0"),
         DeleterCall("create_pipelines", "vs_shdr0")>>

\* make_buffer creating the buffer at half the size it is given.
make_buffer_half_size(h, size) ==
    <<Checked("make_buffer", "SDL_CreateGPUBuffer", h, {"gpu"}, <<size \div 2>>),
      Plain("make_buffer", "SDL_SetGPUBufferName", "", {"gpu", h}, <<>>)>>

\* make_buffer (refactored): create (checked), name.
make_buffer(h, size) ==
    <<Checked("make_buffer", "SDL_CreateGPUBuffer", h, {"gpu"}, <<size>>),
      Plain("make_buffer", "SDL_SetGPUBufferName", "", {"gpu", h}, <<>>)>>

\* make_texture (refactored): create (checked), name.
make_texture(h, format) ==
    <<Checked("make_texture", "SDL_CreateGPUTexture", h, {"gpu"}, <<format>>),
      Plain("make_texture", "SDL_SetGPUTextureName", "", {"gpu", h}, <<>>)>>

\* make_sampler (refactored).
make_sampler(h) ==
    <<Checked("make_sampler", "SDL_CreateGPUSampler", h, {"gpu"}, <<>>)>>

\* frame::create_samplers (single): six samplers, each checked.
create_samplers ==
    [k \in 1..6 |->
        Checked("create_samplers", "SDL_CreateGPUSampler", SamplerName(k - 1), {"gpu"}, <<>>)]

\* frame::create_instance_buffer (single).
create_instance_buffer(pl) ==
    <<Checked("create_instance_buffer", "SDL_CreateGPUBuffer", "instance_buffer",
              {"gpu"}, <<U32(pl.n)>>)>>

\* frame::create_depth_texture (single).
create_depth_texture ==
    <<Plain("create_depth_texture", "SDL_GetWindowSizeInPixels", "", {"window"}, <<>>),
      Checked("create_depth_texture", "SDL_CreateGPUTexture", "depth_texture",
              {"gpu"}, <<"D32_FLOAT_S8_UINT">>)>>

(***************************************************************************)
(* Uploads through a transfer buffer.                                      *)
(*   memcpy p = <<offset into the mapping, size>>     (size_t arithmetic)  *)
(*   SDL_UploadToGPUBuffer p = <<source offset, size>>     (uint32_t)      *)
(*   SDL_UploadToGPUTexture p = <<source offset, mip, layer, w, h>>        *)
(***************************************************************************)
\* Create the transfer buffer (checked), map it (result not tested).
StageBegin(sub, tb, size) ==
    <<Checked(sub, "SDL_CreateGPUTransferBuffer", tb, {"gpu"}, <<size>>),
      Unchecked(sub, "SDL_MapGPUTransferBuffer", "data", {"gpu", tb}, <<>>)>>

\* Unmap, take a command buffer (result not tested), begin the copy pass.
CopyBegin(sub, tb) ==
    <<Plain(sub, "SDL_UnmapGPUTransferBuffer", "", {"gpu", tb}, <<>>),
      Unchecked(sub, "SDL_AcquireGPUCommandBuffer", "copy_cmd", {"gpu"}, <<>>),
      Plain(sub, "SDL_BeginGPUCopyPass", "copy_pass", {"copy_cmd"}, <<>>)>>

\* The transfer buffer released before the copy commands are submitted.
CopyEndReleaseFirst(sub, tb) ==
    <<Plain(sub, "SDL_EndGPUCopyPass", "", {"copy_pass"}, <<>>),
      Plain(sub, "SDL_ReleaseGPUTransferBuffer", tb, {"gpu", tb}, <<>>),
      Unchecked(sub, "SDL_SubmitGPUCommandBuffer", "", {"copy_cmd"}, <<>>)>>

\* End the pass, submit (result not tested), release the transfer buffer.
CopyEnd(sub, tb) ==
    <<Plain(sub, "SDL_EndGPUCopyPass", "", {"copy_pass"}, <<>>),
      Unchecked(sub, "SDL_SubmitGPUCommandBuffer", "", {"copy_cmd"}, <<>>),
      Plain(sub, "SDL_ReleaseGPUTransferBuffer", tb, {"gpu", tb}, <<>>)>>

Memcpy(sub, at, size) == Plain(sub, "memcpy", "", {"data"}, <<at, size>>)

UploadBuffer(sub, tb, dst, offset, size) ==
    Plain(sub, "SDL_UploadToGPUBuffer", "", {"copy_pass", tb, dst}, <<offset, size>>)

\* One SDL_UploadToGPUTexture per sub-image; base is the offset of the
\* texture bytes in the transfer buffer.
UploadSubImages(sub, tb, dst, base, tex) ==
    [k \in 1..Len(tex.sub_images) |->
        LET si == tex.sub_images[k]
        IN Plain(sub, "SDL_UploadToGPUTexture", "", {"copy_pass", tb, dst},
                 <<U32(base + U32(si.offset)), si.mipmap_index, si.layer_index,
                   si.width, si.height>>)]

\* upload_to_gpu (refactored): one transfer buffer for vertices, indices,
\* instances and texture, one copy pass.
upload_to_gpu(pl, tex) ==
    LET sub == "upload_to_gpu"
        tb == "transfer_buffer"
        tb_size == U32(pl.v + pl.i + pl.n + tex.size)
        o1 == U32(0 + U32(pl.v))
        o2 == U32(o1 + U32(pl.i))
        o3 == U32(o2 + U32(pl.n))
    IN StageBegin(sub, tb, tb_size)
       \o <<Memcpy(sub, 0, pl.v),
            Memcpy(sub, pl.v, pl.i),
            Memcpy(sub, pl.v + pl.i, pl.n),
            Memcpy(sub, pl.v + pl.i + pl.n, tex.size)>>
       \o CopyBegin(sub, tb)
       \o <<UploadBuffer(sub, tb, "vertex_buffer", 0, U32(pl.v)),
            UploadBuffer(sub, tb, "index_buffer", o1, U32(pl.i)),
            UploadBuffer(sub, tb, "instance_buffer", o2, U32(pl.n))>>
       \o UploadSubImages(sub, tb, "uv_texture", o3, tex)
       \o CopyEnd(sub, tb)

\* frame::create_and_copy_vertices_indicies (single-file programs): both
\* buffers, then one transfer buffer and one copy pass for the two payloads.
create_and_copy_vertices_indicies(pl) ==
    LET sub == "create_and_copy_vertices_indicies"
        tb == "transfer_buffer"
        vb_size == U32(pl.v)
        ib_size == U32(pl.i)
    IN <<Checked(sub, "SDL_CreateGPUBuffer", "vertex_buffer", {"gpu"}, <<vb_size>>),
         Plain(sub, "SDL_SetGPUBufferName", "", {"gpu", "vertex_buffer"}, <<>>),
         Checked(sub, "SDL_CreateGPUBuffer", "index_buffer", {"gpu"}, <<ib_size>>),
         Plain(sub, "SDL_SetGPUBufferName", "", {"gpu", "index_buffer"}, <<>>)>>
       \o StageBegin(sub, tb, U32(vb_size + ib_size))
       \o <<Memcpy(sub, 0, pl.v), Memcpy(sub, vb_size, pl.i)>>
       \o CopyBegin(sub, tb)
       \o <<UploadBuffer(sub, tb, "vertex_buffer", 0, vb_size),
            UploadBuffer(sub, tb, "index_buffer", vb_size, ib_size)>>
       \o CopyEnd(sub, tb)

\* frame::create_and_load_texture (single-file programs).
create_and_load_texture(tex) ==
    LET sub == "create_and_load_texture"
        tb == "transfer_buffer"
    IN <<Checked(sub, "SDL_CreateGPUTexture", "grid_texture", {"gpu"}, <<tex.format>>),
         Plain(sub, "SDL_SetGPUTextureName", "", {"gpu", "grid_texture"}, <<>>)>>
       \o StageBegin(sub, tb, U32(tex.size))
       \o <<Memcpy(sub, 0, tex.size)>>
       \o CopyBegin(sub, tb)
       \o UploadSubImages(sub, tb, "grid_texture", 0, tex)
       \o CopyEnd(sub, tb)

\* frame::update_instance_buffer (single).
update_instance_buffer(pl) ==
    LET sub == "update_instance_buffer"
        tb == "transfer_buffer"
        ib_size == U32(pl.n)
    IN StageBegin(sub, tb, ib_size)
       \o <<Memcpy(sub, 0, ib_size)>>
       \o CopyBegin(sub, tb)
       \o <<UploadBuffer(sub, tb, "instance_buffer", 0, ib_size)>>
       \o CopyEnd(sub, tb)

(***************************************************************************)
(* The scene: its owning pointers, its construction, its destruction.      *)
(***************************************************************************)
\* The owning pointers of scene / frame_context, in declaration order.
SceneMembers(v) ==
    CASE v = "refactored" ->
            <<"pipelines0", "pipelines1", "vertex_buffer", "index_buffer",
              "instance_buffer", "depth_texture", "uv_texture", "uv_sampler">>
      [] v = "single" ->
            <<"depth_texture", "pipeline", "vertex_buffer", "index_buffer",
              "instance_buffer", "grid_texture", "samplers0", "samplers1",
              "samplers2", "samplers3", "samplers4", "samplers5">>
      [] v = "instanced" ->
            <<"pipeline", "vertex_buffer", "index_buffer", "grid_texture">>
      [] OTHER -> <<>>

\* sdl3::init_scene (refactored).
init_scene(pl, tex) ==
    <<Plain("init_scene", "SDL_GetWindowSizeInPixels", "", {"window"}, <<>>)>>
    \o make_gfx_pipeline(0)
    \o make_gfx_pipeline(1)
    \o make_buffer("vertex_buffer", U32(pl.v))
    \o make_buffer("index_buffer", U32(pl.i))
    \o make_buffer("instance_buffer", U32(pl.n))
    \o make_texture("depth_texture", DEPTH_FORMAT)
    \o make_texture("uv_texture", tex.format)
    \o make_sampler("uv_sampler")
    \o upload_to_gpu(pl, tex)

\* frame::init that leaves the instance upload to the update step.
frame_init_no_instances(v, pl, tex) ==
    IF v = "single"
    THEN create_pipelines(v)
         \o create_and_copy_vertices_indicies(pl)
         \o create_instance_buffer(pl)
         \o create_and_load_texture(tex)
         \o create_depth_texture
         \o create_samplers
    ELSE create_pipelines(v)
         \o create_and_copy_vertices_indicies(pl)
         \o create_and_load_texture(tex)

\* frame::init of the single-file programs.
frame_init(v, pl, tex) ==
    IF v = "single"
    THEN create_pipelines(v)
         \o create_and_copy_vertices_indicies(pl)
         \o create_instance_buffer(pl)
         \o create_and_load_texture(tex)
         \o create_depth_texture
         \o create_samplers
         \o update_instance_buffer(pl)
    ELSE create_pipelines(v)
         \o create_and_copy_vertices_indicies(pl)
         \o create_and_load_texture(tex)

InitSceneCalls(v, pl, tex) ==
    IF v = "refactored" THEN init_scene(pl, tex) ELSE frame_init(v, pl, tex)

\* destroy_scene / frame::destroy: scn = {}.
DestroySceneCalls(v, held) ==
    ResetAll(IF v = "refactored" THEN "destroy_scene" ELSE "destroy",
             SceneMembers(v), held)

(***************************************************************************)
(* The frame.                                                              *)
(***************************************************************************)
\* main's get_projection: the matrix is a function of the angle.
get_projection(a) == [rotation |-> a]

\* get_swapchain_texture: both the result and the texture are tested.
get_swapchain_texture ==
    <<Checked("get_swapchain_texture", "SDL_WaitAndAcquireGPUSwapchainTexture",
              "sc_img", {"cmd_buf", "window"}, <<>>)>>

AcquireCmdBuf ==
    <<Checked("draw", "SDL_AcquireGPUCommandBuffer", "cmd_buf", {"gpu"}, <<>>)>>

PushUniform(vp) ==
    <<Plain("draw", "SDL_PushGPUVertexUniformData", "", {"cmd_buf"}, <<0, vp>>)>>

\* The command buffer submitted while the render pass is still open.
SubmitThenEnd ==
    <<Unchecked("draw", "SDL_SubmitGPUCommandBuffer", "", {"cmd_buf"}, <<>>),
      Plain("draw", "SDL_EndGPURenderPass", "", {"render_pass"}, <<>>)>>

EndAndSubmit ==
    <<Plain("draw", "SDL_EndGPURenderPass", "", {"render_pass"}, <<>>),
      Unchecked("draw", "SDL_SubmitGPUCommandBuffer", "", {"cmd_buf"}, <<>>)>>

BeginPass(depth) ==
    <<Plain("draw", "SDL_BeginGPURenderPass", "render_pass",
            {"cmd_buf", "sc_img"} \cup depth, <<>>)>>

BindPipeline(h) ==
    Plain("draw", "SDL_BindGPUGraphicsPipeline", "", {"render_pass", h}, <<>>)

\* The grid overlay drawn once for each of two grids.
GridOverlayTwice ==
    <<BindPipeline(PipelineName(1)),
      Plain("draw", "SDL_DrawGPUPrimitives", "", {"render_pass"}, <<GRID_VERTICES, 1>>),
      Plain("draw", "SDL_DrawGPUPrimitives", "", {"render_pass"}, <<GRID_VERTICES, 1>>)>>

\* The grid overlay of sdl3::draw: second pipeline, 6 vertices, 1 instance.
GridOverlay ==
    <<BindPipeline(PipelineName(1)),
      Plain("draw", "SDL_DrawGPUPrimitives", "", {"render_pass"}, <<GRID_VERTICES, 1>>)>>

\* sdl3::draw (refactored): uniform data is pushed before the swapchain
\* texture is taken; the mesh, then the grid overlay.
draw_refactored(cnt, vp) ==
    AcquireCmdBuf
    \o PushUniform(vp)
    \o get_swapchain_texture
    \o BeginPass({"depth_texture"})
    \o <<Plain("draw", "SDL_BindGPUVertexBuffers", "",
               {"render_pass", "vertex_buffer", "instance_buffer"}, <<0, 2>>),
         Plain("draw", "SDL_BindGPUIndexBuffer", "", {"render_pass", "index_buffer"}, <<>>),
         Plain("draw", "SDL_BindGPUFragmentSamplers", "",
               {"render_pass", "uv_texture", "uv_sampler"}, <<0, 1>>),
         BindPipeline(PipelineName(0)),
         Plain("draw", "SDL_DrawGPUIndexedPrimitives", "", {"render_pass"},
               <<cnt.index_count, cnt.instance_count>>)>>
    \o GridOverlay
    \o EndAndSubmit

\* frame::draw (single) with the selection used as the binding slot too.
draw_single_sampler_as_slot(cnt, vp, sampler) ==
    AcquireCmdBuf
    \o get_swapchain_texture
    \o BeginPass({"depth_texture"})
    \o PushUniform(vp)
    \o <<Plain("draw", "SDL_BindGPUVertexBuffers", "",
               {"render_pass", "vertex_buffer", "instance_buffer"}, <<0, 2>>),
         Plain("draw", "SDL_BindGPUIndexBuffer", "", {"render_pass", "index_buffer"}, <<>>),
         Plain("draw", "SDL_BindGPUFragmentSamplers", "",
               {"render_pass", "grid_texture", SamplerName(sampler)}, <<sampler, 1>>),
         BindPipeline("pipeline"),
         Plain("draw", "SDL_DrawGPUIndexedPrimitives", "", {"render_pass"},
               <<cnt.index_count, cnt.instance_count>>)>>
    \o EndAndSubmit

\* frame::draw (single): uniform data is pushed inside the render pass.
draw_single(cnt, vp, sampler) ==
    AcquireCmdBuf
    \o get_swapchain_texture
    \o BeginPass({"depth_texture"})
    \o PushUniform(vp)
    \o <<Plain("draw", "SDL_BindGPUVertexBuffers", "",
               {"render_pass", "vertex_buffer", "instance_buffer"}, <<0, 2>>),
         Plain("draw", "SDL_BindGPUIndexBuffer", "", {"render_pass", "index_buffer"}, <<>>),
         Plain("draw", "SDL_BindGPUFragmentSamplers", "",
               {"render_pass", "grid_texture", SamplerName(sampler)}, <<0, 1>>),
         BindPipeline("pipeline"),
         Plain("draw", "SDL_DrawGPUIndexedPrimitives", "", {"render_pass"},
               <<cnt.index_count, cnt.instance_count>>)>>
    \o EndAndSubmit

\* frame::draw (instanced) drawing as many instances as the context holds.
draw_instanced_counted(cnt) ==
    AcquireCmdBuf
    \o get_swapchain_texture
    \o BeginPass({})
    \o <<Plain("draw", "SDL_BindGPUVertexBuffers", "",
               {"render_pass", "vertex_buffer"}, <<0, 1>>),
         Plain("draw", "SDL_BindGPUIndexBuffer", "", {"render_pass", "index_buffer"}, <<>>),
         BindPipeline("pipeline"),
         Plain("draw", "SDL_DrawGPUIndexedPrimitives", "", {"render_pass"},
               <<cnt.index_count, cnt.instance_count>>)>>
    \o EndAndSubmit

\* frame::draw (instanced): no uniform data, no sampler, 16 instances.
draw_instanced(cnt) ==
    AcquireCmdBuf
    \o get_swapchain_texture
    \o BeginPass({})
    \o <<Plain("draw", "SDL_BindGPUVertexBuffers", "",
               {"render_pass", "vertex_buffer"}, <<0, 1>>),
         Plain("draw", "SDL_BindGPUIndexBuffer", "", {"render_pass", "index_buffer"}, <<>>),
         BindPipeline("pipeline"),
         Plain("draw", "SDL_DrawGPUIndexedPrimitives", "", {"render_pass"},
               <<cnt.index_count, LITERAL_INSTANCES>>)>>
    \o EndAndSubmit

\* frame::draw (clear): the pass only clears.
draw_clear ==
    AcquireCmdBuf \o get_swapchain_texture \o BeginPass({}) \o EndAndSubmit

DrawCalls(v, cnt, vp, sampler) ==
    CASE v = "refactored" -> draw_refactored(cnt, vp)
      [] v = "single" -> draw_single(cnt, vp, sampler)
      [] v = "instanced" -> draw_instanced(cnt)
      [] OTHER -> draw_clear

(***************************************************************************)
(* main: the order of its statements.                                      *)
(***************************************************************************)
\* The statements of main before the event loop.
Prologue(v) ==
    CASE v = "refactored" -> <<"load_assets", "init_context", "init_scene">>
      [] v \in {"single", "instanced"} -> <<"init_context", "load_assets", "init_scene">>
      [] OTHER -> <<"init_context">>

\* The body of the loop with draw ahead of update in both programs.
LoopBodyDrawFirst(v) ==
    IF v \in {"single", "refactored"} THEN <<"poll", "draw", "update">>
    ELSE <<"poll", "draw">>

\* The body of `while (not quit)`.
LoopBody(v) ==
    CASE v = "refactored" -> <<"poll", "draw", "update">>
      [] v = "single" -> <<"poll", "update", "draw">>
      [] OTHER -> <<"poll", "draw">>

\* The statements of main after the event loop.
Epilogue(v) ==
    IF v = "clear" THEN <<"destroy_context", "return">>
    ELSE <<"destroy_scene", "destroy_context", "return">>

IndexOf(seq, x) == CHOOSE k \in 1..Len(seq) : seq[k] = x
Has(seq, x) == \E k \in 1..Len(seq) : seq[k] = x

\* while (not quit)
LoopTest(v, q) == IF q THEN Head(Epilogue(v)) ELSE Head(LoopBody(v))

\* main leaving the loop as soon as the poll has set the flag.
NextPcBreakAfterPoll(v, at, q) ==
    IF Has(Prologue(v), at)
    THEN LET k == IndexOf(Prologue(v), at)
         IN IF k < Len(Prologue(v)) THEN Prologue(v)[k + 1] ELSE LoopTest(v, q)
    ELSE IF Has(LoopBody(v), at)
    THEN LET k == IndexOf(LoopBody(v), at)
         IN IF at = "poll" /\ q THEN Head(Epilogue(v))
            ELSE IF k < Len(LoopBody(v)) THEN LoopBody(v)[k + 1] ELSE LoopTest(v, q)
    ELSE LET k == IndexOf(Epilogue(v), at)
         IN IF k < Len(Epilogue(v)) THEN Epilogue(v)[k + 1] ELSE "returned"

\* The statement main runs after statement `at` has returned.
NextPc(v, at, q) ==
    IF Has(Prologue(v), at)
    THEN LET k == IndexOf(Prologue(v), at)
         IN IF k < Len(Prologue(v)) THEN Prologue(v)[k + 1] ELSE LoopTest(v, q)
    ELSE IF Has(LoopBody(v), at)
    THEN LET k == IndexOf(LoopBody(v), at)
         IN IF k < Len(LoopBody(v)) THEN LoopBody(v)[k + 1] ELSE LoopTest(v, q)
    ELSE LET k == IndexOf(Epilogue(v), at)
         IN IF k < Len(Epilogue(v)) THEN Epilogue(v)[k + 1] ELSE "returned"

\* Where main is after body `prog` of statement `at` has run.
PcAfter(v, at, q, prog, f, ub) ==
    IF Outcome(prog, f, ub) = "returned" THEN NextPc(v, at, q) ELSE Outcome(prog, f, ub)

\* The handles a run leaves in owning pointers: created, not released.
Created(es) == {es[k].h : k \in {j \in 1..Len(es) : es[j].op \in CreateOps /\ es[j].ok}}
Released(es) == {es[k].h : k \in {j \in 1..Len(es) : es[j].op \in ReleaseOps}}

(***************************************************************************)
(* The state after construction.                                           *)
(***************************************************************************)
Init ==
    /\ variant \in Variants
    /\ pc = Head(Prologue(variant))
    /\ calls = <<>>
    /\ owned = {}
    /\ quit = FALSE
    /\ active_sampler = 0
    /\ angle = 0
    /\ view_proj = get_projection(0)
    /\ iter = 0
    /\ payload = MeshPayload(variant)
    /\ texture = NoTexture
    /\ file = (IF variant = "clear" THEN NoFile ELSE AssetFile)
    /\ backend_formats = {}

(***************************************************************************)
(* The statements of main.                                                 *)
(***************************************************************************)
\* app::load_texture / io::read_image_file (and the shader files of the
\* refactored get_pipeline_desc).
LoadAssets ==
    /\ pc = "load_assets"
    /\ \E f \in Failures(LoadAssetsCalls(variant), calls) :
          LET prog == LoadAssetsCalls(variant) IN
          /\ calls' = calls \o Exec("load_assets", prog, f, "continue", iter)
          /\ pc' = PcAfter(variant, "load_assets", quit, prog, f, "continue")
          /\ texture' = IF f = 0 THEN read_image_file(file) ELSE texture
    /\ UNCHANGED <<backend_formats, variant, owned, quit, active_sampler, angle, view_proj, iter,
                   payload, file>>

\* sdl3::init_context / base::init.
InitContext ==
    /\ pc = "init_context"
    /\ \E f \in Failures(InitContextCalls(variant), calls) :
          LET prog == InitContextCalls(variant)
              es == Exec("init_context", prog, f, "continue", iter) IN
          /\ calls' = calls \o es
          /\ pc' = PcAfter(variant, "init_context", quit, prog, f, "continue")
          /\ owned' = owned \cup (Created(es) \ Released(es))
          /\ IF "gpu" \in Created(es)
             THEN backend_formats' \in SDL_CreateGPUDevice(RequestedFormats, MainBackends)
             ELSE backend_formats' = backend_formats
    /\ UNCHANGED <<variant, quit, active_sampler, angle, view_proj, iter,
                   payload, texture, file>>

\* sdl3::init_scene / frame::init.
InitScene ==
    /\ pc = "init_scene"
    /\ \E f \in Failures(InitSceneCalls(variant, payload, texture), calls), ub \in UBOutcomes :
          LET prog == InitSceneCalls(variant, payload, texture)
              es == WithShaderFormats(Exec("init_scene", prog, f, ub, iter),
                                      backend_formats) IN
          /\ calls' = calls \o es
          /\ pc' = PcAfter(variant, "init_scene", quit, prog, f, ub)
          /\ owned' = owned \cup (Created(es) \ Released(es))
          /\ active_sampler' =
                IF variant = "single" /\ Outcome(prog, f, ub) = "returned"
                THEN INITIAL_SAMPLER ELSE active_sampler
    /\ UNCHANGED <<backend_formats, variant, quit, angle, view_proj, iter, payload, texture, file>>

\* What the event queue holds when it is polled.
Events == {"none", "quit", "escape_down", "other_key_down"}

\* The inner `while (SDL_PollEvent(&e))` of main: SDL_EVENT_QUIT sets quit;
\* the single-file programs also quit on the Escape key-down event.
PollSetsQuit(v, e) == e = "quit" \/ (v # "refactored" /\ e = "escape_down")

PollCalls == <<Plain("main", "SDL_PollEvent", "", {}, <<>>)>>

\* The window is closed in iteration MaxFrames at the latest.
\*   SDL_PollEvent p = <<quit, once the queue is drained>>
PollEvents ==
    /\ pc = "poll"
    /\ \E e \in Events :
          /\ iter + 1 >= MaxFrames => e = "quit"
          /\ quit' = (quit \/ PollSetsQuit(variant, e))
          /\ pc' = NextPc(variant, "poll", quit')
    /\ iter' = iter + 1
    /\ calls' = calls \o <<[Exec("poll", PollCalls, 0, "continue", iter + 1)[1]
                              EXCEPT !.p = <<quit'>>]>>
    /\ UNCHANGED <<backend_formats, variant, owned, active_sampler, angle, view_proj, payload,
                   texture, file>>

\* The keys that can be down when app::update reads the keyboard.
Keys(v) ==
    CASE v = "refactored" -> {"escape", "a", "d"}
      [] v = "single" -> {"1", "2"}
      [] OTHER -> {}

\* app::update(rndr) with the chain tested from key 6 down.
SamplerAfterHighestKey(keys, prv) ==
    IF "6" \in keys THEN 5
    ELSE IF "5" \in keys THEN 4
    ELSE IF "4" \in keys THEN 3
    ELSE IF "3" \in keys THEN 2
    ELSE IF "2" \in keys THEN 1
    ELSE IF "1" \in keys THEN 0
    ELSE prv

\* app::update(rndr) of the single-file program: an if / else-if chain over
\* the digit keys.
SamplerAfter(keys, prv) ==
    IF "1" \in keys THEN 0
    ELSE IF "2" \in keys THEN 1
    ELSE IF "3" \in keys THEN 2
    ELSE IF "4" \in keys THEN 3
    ELSE IF "5" \in keys THEN 4
    ELSE IF "6" \in keys THEN 5
    ELSE prv

\* app::update(angle) of the earlier copy of main.cpp: A and D only.
AngleAfterAD(keys, a) ==
    LET a1 == IF "a" \in keys THEN a - 1 ELSE a
        a2 == IF "d" \in keys THEN a1 + 1 ELSE a1
    IN IF a2 >= ANGLE_LIMIT \/ a2 <= -ANGLE_LIMIT THEN 0 ELSE a2

\* app::update(angle) without the reset at the limit.
AngleAfterNoReset(keys, a) ==
    LET a1 == IF "a" \in keys \/ "left" \in keys THEN a - 1 ELSE a
        a2 == IF "d" \in keys \/ "right" \in keys THEN a1 + 1 ELSE a1
    IN a2

\* app::update(angle) of the refactored program, angle in half degrees.
AngleAfter(keys, a) ==
    LET a1 == IF "a" \in keys \/ "left" \in keys THEN a - 1 ELSE a
        a2 == IF "d" \in keys \/ "right" \in keys THEN a1 + 1 ELSE a1
    IN IF a2 >= ANGLE_LIMIT \/ a2 <= -ANGLE_LIMIT THEN 0 ELSE a2

\* app::update uploading the instances again on every call.
UpdateCallsReupload ==
    <<Plain("update", "SDL_GetKeyboardState", "", {}, <<>>)>>
    \o update_instance_buffer(MeshPayload("single"))

UpdateCalls == <<Plain("update", "SDL_GetKeyboardState", "", {}, <<>>)>>

\* app::update; in the refactored main the projection is rebuilt from the
\* angle right after it.
Update ==
    /\ pc = "update"
    /\ \E keys \in SUBSET Keys(variant) :
          /\ quit' = (quit \/ (variant = "refactored" /\ "escape" \in keys))
          /\ angle' = IF variant = "refactored" THEN AngleAfter(keys, angle) ELSE angle
          /\ active_sampler' =
                IF variant = "single" THEN SamplerAfter(keys, active_sampler)
                ELSE active_sampler
          /\ view_proj' = IF variant = "refactored" THEN get_projection(angle')
                          ELSE view_proj
          /\ pc' = NextPc(variant, "update", quit')
    /\ calls' = calls \o Exec("update", UpdateCalls, 0, "continue", iter)
    /\ UNCHANGED <<backend_formats, variant, owned, iter, payload, texture, file>>

\* A draw that moves on to the next sampler after the frame.
DrawAdvancingSampler ==
    /\ pc = "draw"
    /\ \E f \in Failures(DrawCalls(variant, MeshCounts(variant), view_proj, active_sampler),
                      calls) :
          LET prog == DrawCalls(variant, MeshCounts(variant), view_proj, active_sampler) IN
          /\ calls' = calls \o Exec("draw", prog, f, "continue", iter)
          /\ pc' = PcAfter(variant, "draw", quit, prog, f, "continue")
    /\ active_sampler' = (active_sampler + 1) % 2
    /\ UNCHANGED <<backend_formats, variant, owned, quit, angle, view_proj, iter,
                   payload, texture, file>>

\* sdl3::draw / frame::draw.
Draw ==
    /\ pc = "draw"
    /\ \E f \in Failures(DrawCalls(variant, MeshCounts(variant), view_proj, active_sampler),
                      calls) :
          LET prog == DrawCalls(variant, MeshCounts(variant), view_proj, active_sampler) IN
          /\ calls' = calls \o Exec("draw", prog, f, "continue", iter)
          /\ pc' = PcAfter(variant, "draw", quit, prog, f, "continue")
    /\ UNCHANGED <<backend_formats, variant, owned, quit, active_sampler, angle, view_proj, iter,
                   payload, texture, file>>

\* sdl3::destroy_scene / frame::destroy.
DestroyScene ==
    /\ pc = "destroy_scene"
    /\ calls' = calls \o Exec("destroy_scene", DestroySceneCalls(variant, owned), 0,
                              "continue", iter)
    /\ owned' = HeldAfterReset(SceneMembers(variant), owned)
    /\ pc' = NextPc(variant, "destroy_scene", quit)
    /\ UNCHANGED <<backend_formats, variant, quit, active_sampler, angle, view_proj, iter,
                   payload, texture, file>>

\* sdl3::destroy_context / base::destroy.
DestroyContext ==
    /\ pc = "destroy_context"
    /\ calls' = calls \o Exec("destroy_context", DestroyContextCalls(variant, owned), 0,
                              "continue", iter)
    /\ owned' = HeldAfterReset(ContextMembers(variant), owned)
    /\ pc' = NextPc(variant, "destroy_context", quit)
    /\ UNCHANGED <<backend_formats, variant, quit, active_sampler, angle, view_proj, iter,
                   payload, texture, file>>

\* return 0: the locals of main are destroyed, the scene before the context.
ReturnCalls(v, held) ==
    ResetAll("main", SceneMembers(v), held)
    \o ResetAll("main", ContextMembers(v), HeldAfterReset(SceneMembers(v), held))

MainReturn ==
    /\ pc = "return"
    /\ calls' = calls \o Exec("return", ReturnCalls(variant, owned), 0, "continue", iter)
    /\ owned' = HeldAfterReset(ContextMembers(variant),
                               HeldAfterReset(SceneMembers(variant), owned))
    /\ pc' = NextPc(variant, "return", quit)
    /\ UNCHANGED <<backend_formats, variant, quit, active_sampler, angle, view_proj, iter,
                   payload, texture, file>>

Next ==
    \/ LoadAssets
    \/ InitContext
    \/ InitScene
    \/ PollEvents
    \/ Update
    \/ Draw
    \/ DestroyScene
    \/ DestroyContext
    \/ MainReturn

Spec == Init /\ [][Next]_vars

\* main is the only thread and every native call returns (the swapchain
\* acquire blocks, then returns): the statement main is at eventually runs.
SpecLive == Spec /\ WF_vars(Next)

(***************************************************************************)
(* The uploader on its own: every upload function applied to payloads of   *)
(* any size (the spans it is handed are sized by size_t).                  *)
(***************************************************************************)
\* Payload sizes in words: the meshes of main, and spans close to 4 GiB.
UploadPayloads ==
    {[v |-> a, i |-> CUBE_INDICES, n |-> c] :
        a \in {CUBE_VERTICES * VERTEX_WORDS, UINT32_WORDS},
        c \in {3 * MAT4_WORDS,
               UINT32_WORDS - CUBE_VERTICES * VERTEX_WORDS - CUBE_INDICES}}

UploadFunctions(v) ==
    CASE v = "refactored" -> {"upload_to_gpu"}
      [] v = "single" -> {"create_and_copy_vertices_indicies", "create_and_load_texture",
                          "update_instance_buffer"}
      [] OTHER -> {"create_and_copy_vertices_indicies", "create_and_load_texture"}

UploadCalls(fn, pl, tex) ==
    CASE fn = "upload_to_gpu" -> upload_to_gpu(pl, tex)
      [] fn = "create_and_copy_vertices_indicies" -> create_and_copy_vertices_indicies(pl)
      [] fn = "create_and_load_texture" -> create_and_load_texture(tex)
      [] OTHER -> update_instance_buffer(pl)

InitUpload ==
    /\ variant \in Variants \ {"clear"}
    /\ pc = "read_image_file"
    /\ calls = <<>>
    /\ owned = {"gpu", "window"}
    /\ quit = FALSE
    /\ active_sampler = 0
    /\ angle = 0
    /\ view_proj = get_projection(0)
    /\ iter = 0
    /\ payload \in UploadPayloads
    /\ file \in Files
    /\ texture = NoTexture
    /\ backend_formats \in SDL_CreateGPUDevice(RequestedFormats, MainBackends)

\* io::read_image_file decodes the file.
ReadImageFile ==
    /\ pc = "read_image_file"
    /\ \E f \in Failures(read_image_file_calls, calls) :
          LET prog == read_image_file_calls IN
          /\ calls' = calls \o Exec("read_image_file", prog, f, "continue", iter)
          /\ pc' = IF f = 0 THEN "upload" ELSE Outcome(prog, f, "continue")
          /\ texture' = IF f = 0 THEN read_image_file(file) ELSE texture
    /\ UNCHANGED <<backend_formats, variant, owned, quit, active_sampler, angle, view_proj, iter,
                   payload, file>>

\* One upload function runs on the payloads.
Upload ==
    /\ pc = "upload"
    /\ \E fn \in UploadFunctions(variant), ub \in UBOutcomes :
       \E f \in Failures(UploadCalls(fn, payload, texture), calls) :
          LET prog == UploadCalls(fn, payload, texture) IN
          /\ calls' = calls \o Exec(fn, prog, f, ub, iter)
          /\ pc' = Outcome(prog, f, ub)
    /\ UNCHANGED <<backend_formats, variant, owned, quit, active_sampler, angle, view_proj, iter,
                   payload, texture, file>>

NextUpload == ReadImageFile \/ Upload

SpecUpload == InitUpload /\ [][NextUpload]_vars

(***************************************************************************)
(* Shader creation on its own: a device of any backend that takes one of   *)
(* the requested formats, then one shader.                                 *)
(***************************************************************************)
InitShader ==
    /\ variant \in Variants \ {"clear"}
    /\ pc = "create_device"
    /\ calls = <<>>
    /\ owned = {}
    /\ quit = FALSE
    /\ active_sampler = 0
    /\ angle = 0
    /\ view_proj = get_projection(0)
    /\ iter = 0
    /\ payload = MeshPayload(variant)
    /\ texture = NoTexture
    /\ file = AssetFile
    /\ backend_formats = {}

\* init_context / base::init on a machine with any backend.
CreateDevice ==
    /\ pc = "create_device"
    /\ \E f \in Failures(InitContextCalls(variant), calls) :
          LET prog == InitContextCalls(variant)
              es == Exec("init_context", prog, f, "continue", iter) IN
          /\ calls' = calls \o es
          /\ pc' = IF Outcome(prog, f, "continue") = "returned" THEN "create_shader"
                   ELSE Outcome(prog, f, "continue")
          /\ owned' = owned \cup (Created(es) \ Released(es))
          /\ IF "gpu" \in Created(es)
             THEN backend_formats' \in SDL_CreateGPUDevice(RequestedFormats, AllBackends)
             ELSE backend_formats' = backend_formats
    /\ UNCHANGED <<variant, quit, active_sampler, angle, view_proj, iter,
                   payload, texture, file>>

\* The body that creates shader h in the program.
ShaderCalls(v, h) ==
    IF v = "refactored" THEN make_gpu_shader(h)
    ELSE load_gpu_shader(h, IF h = VsName(0) THEN "vs_bin" ELSE "fs_bin")

\* make_gpu_shader / load_gpu_shader for the vertex or the fragment shader.
CreateShader ==
    /\ pc = "create_shader"
    /\ \E h \in {VsName(0), FsName(0)} :
       \E f \in Failures(ShaderCalls(variant, h), calls) :
          LET prog == ShaderCalls(variant, h)
              es == WithShaderFormats(Exec("create_shader", prog, f, "continue", iter),
                                      backend_formats) IN
          /\ calls' = calls \o es
          /\ pc' = Outcome(prog, f, "continue")
          /\ owned' = owned \cup (Created(es) \ Released(es))
    /\ UNCHANGED <<backend_formats, variant, quit, active_sampler, angle, view_proj,
                   iter, payload, texture, file>>

NextShader == CreateDevice \/ CreateShader

SpecShader == InitShader /\ [][NextShader]_vars

(***************************************************************************)
(* The stages "Vertex Buffer Triangle" and "Basic Stencil" of ReadMe.md.   *)
(* Their C++ sources are other tags of the repository; the stages are      *)
(* written here after their description, over the fragments above.         *)
(***************************************************************************)
\* three vertices per triangle, no indices
TRIANGLE_VERTICES == 3
\* float3 Position and float4 Color of the vertex shader input
TRIANGLE_VERTEX_WORDS == 7
\* the value the masker writes and the maskee compares with
STENCIL_REFERENCE == 1

\* The stencil stage keeps the masking and the masked triangle in one buffer.
StagePayload(s) ==
    LET mesh == [vertex_count |-> IF s = "stencil" THEN 2 * TRIANGLE_VERTICES
                                  ELSE TRIANGLE_VERTICES,
                 index_count |-> 0]
    IN [v |-> mesh.vertex_count * TRIANGLE_VERTEX_WORDS, i |-> mesh.index_count,
        n |-> 0, mesh |-> mesh]

\* The masker fails every fragment and replaces the stencil value on failure;
\* the maskee passes where the stencil value equals the reference.
\*   SDL_CreateGPUGraphicsPipeline p = <<compare_op, fail_op>>
create_stencil_pipelines ==
    read_file("vs_bin")
    \o read_file("fs_bin")
    \o load_gpu_shader("vs_shdr0", "vs_bin")
    \o load_gpu_shader("fs_shdr0", "fs_bin")
    \o <<Plain("create_pipelines", "SDL_GetGPUSwapchainTextureFormat", "",
               {"gpu", "window"}, <<SwapchainTextureFormat("window")>>),
         Checked("create_pipelines", "SDL_CreateGPUGraphicsPipeline", PipelineName(0),
                 {"gpu", "vs_shdr0", "fs_shdr0"}, <<"NEVER", "REPLACE">>),
         Checked("create_pipelines", "SDL_CreateGPUGraphicsPipeline", PipelineName(1),
                 {"gpu", "vs_shdr0", "fs_shdr0"}, <<"EQUAL", "KEEP">>),
         DeleterCall("create_pipelines", "fs_shdr0"),
         DeleterCall("create_pipelines", "vs_shdr0")>>

\* upload(device, vertices): the vertex buffer and its copy; no index buffer.
upload_vertices(pl) ==
    LET sub == "upload"
        tb == "transfer_buffer"
    IN <<Checked(sub, "SDL_CreateGPUBuffer", "vertex_buffer", {"gpu"}, <<U32(pl.v)>>)>>
       \o StageBegin(sub, tb, U32(pl.v))
       \o <<Memcpy(sub, 0, pl.v)>>
       \o CopyBegin(sub, tb)
       \o <<UploadBuffer(sub, tb, "vertex_buffer", 0, U32(pl.v))>>
       \o CopyEnd(sub, tb)

stage_init(s, pl) ==
    IF s = "stencil"
    THEN create_stencil_pipelines \o upload_vertices(pl) \o create_depth_texture
    ELSE create_pipelines("instanced") \o upload_vertices(pl)

StageMembers(s) ==
    IF s = "stencil"
    THEN <<"depth_texture", "vertex_buffer", PipelineName(1), PipelineName(0)>>
    ELSE <<"vertex_buffer", "pipeline">>

\*   SDL_DrawGPUPrimitives p = <<num_vertices, num_instances, first_vertex>>
DrawPrimitives(first) ==
    Plain("draw", "SDL_DrawGPUPrimitives", "", {"render_pass"},
          <<TRIANGLE_VERTICES, 1, first>>)

BindVertexBuffer ==
    Plain("draw", "SDL_BindGPUVertexBuffers", "", {"render_pass", "vertex_buffer"}, <<0, 1>>)

\* The triangle drawn through an index buffer.
draw_triangle_indexed ==
    AcquireCmdBuf
    \o get_swapchain_texture
    \o BeginPass({})
    \o <<BindPipeline("pipeline"),
         BindVertexBuffer,
         Plain("draw", "SDL_BindGPUIndexBuffer", "", {"render_pass", "index_buffer"}, <<>>),
         Plain("draw", "SDL_DrawGPUIndexedPrimitives", "", {"render_pass"},
               <<TRIANGLE_VERTICES, 1>>)>>
    \o EndAndSubmit

\* One frame of the triangle stage.
draw_triangle ==
    AcquireCmdBuf
    \o get_swapchain_texture
    \o BeginPass({})
    \o <<BindPipeline("pipeline"),
         BindVertexBuffer,
         DrawPrimitives(0)>>
    \o EndAndSubmit

\* The masked triangle drawn before the mask is written.
\*   SDL_SetGPUStencilReference p = <<reference>>
draw_stencil_maskee_first ==
    AcquireCmdBuf
    \o get_swapchain_texture
    \o BeginPass({"depth_texture"})
    \o <<BindVertexBuffer,
         Plain("draw", "SDL_SetGPUStencilReference", "", {"render_pass"},
               <<STENCIL_REFERENCE>>),
         BindPipeline(PipelineName(1)),
         DrawPrimitives(TRIANGLE_VERTICES),
         BindPipeline(PipelineName(0)),
         DrawPrimitives(0)>>
    \o EndAndSubmit

\* One frame of the stencil stage: the mask, then what it masks.
draw_stencil ==
    AcquireCmdBuf
    \o get_swapchain_texture
    \o BeginPass({"depth_texture"})
    \o <<BindVertexBuffer,
         Plain("draw", "SDL_SetGPUStencilReference", "", {"render_pass"},
               <<STENCIL_REFERENCE>>),
         BindPipeline(PipelineName(0)),
         DrawPrimitives(0),
         BindPipeline(PipelineName(1)),
         DrawPrimitives(TRIANGLE_VERTICES)>>
    \o EndAndSubmit

InitStage ==
    /\ variant \in {"triangle", "stencil"}
    /\ pc = "init_context"
    /\ calls = <<>>
    /\ owned = {}
    /\ quit = FALSE
    /\ active_sampler = 0
    /\ angle = 0
    /\ view_proj = get_projection(0)
    /\ iter = 0
    /\ payload = StagePayload(variant)
    /\ texture = NoTexture
    /\ file = NoFile
    /\ backend_formats = {}

\* The context of the stage: a 1920x1080 window claimed for the device.
StageInitContext ==
    /\ pc = "init_context"
    /\ \E f \in Failures(base_init("instanced"), calls) :
          LET prog == base_init("instanced")
              es == Exec("init_context", prog, f, "continue", iter) IN
          /\ calls' = calls \o es
          /\ pc' = IF Outcome(prog, f, "continue") = "returned" THEN "init_scene"
                   ELSE Outcome(prog, f, "continue")
          /\ owned' = owned \cup (Created(es) \ Released(es))
          /\ IF "gpu" \in Created(es)
             THEN backend_formats' \in SDL_CreateGPUDevice(RequestedFormats, MainBackends)
             ELSE backend_formats' = backend_formats
    /\ UNCHANGED <<variant, quit, active_sampler, angle, view_proj, iter,
                   payload, texture, file>>

\* Pipelines and upload of the stage.
StageInitScene ==
    /\ pc = "init_scene"
    /\ \E f \in Failures(stage_init(variant, payload), calls), ub \in UBOutcomes :
          LET prog == stage_init(variant, payload)
              es == WithShaderFormats(Exec("init_scene", prog, f, ub, iter),
                                      backend_formats) IN
          /\ calls' = calls \o es
          /\ pc' = IF Outcome(prog, f, ub) = "returned" THEN "poll"
                   ELSE Outcome(prog, f, ub)
          /\ owned' = owned \cup (Created(es) \ Released(es))
    /\ UNCHANGED <<backend_formats, variant, quit, active_sampler, angle, view_proj, iter,
                   payload, texture, file>>

\* The event loop of the stage: quit event or Escape leaves it.
StagePoll ==
    /\ pc = "poll"
    /\ \E e \in Events :
          /\ iter + 1 >= MaxFrames => e = "quit"
          /\ quit' = (quit \/ PollSetsQuit("instanced", e))
          /\ pc' = IF quit' THEN "destroy" ELSE "draw"
    /\ iter' = iter + 1
    /\ calls' = calls \o Exec("poll", PollCalls, 0, "continue", iter + 1)
    /\ UNCHANGED <<backend_formats, variant, owned, active_sampler, angle, view_proj, payload,
                   texture, file>>

StageDraw ==
    /\ pc = "draw"
    /\ LET prog == IF variant = "stencil" THEN draw_stencil ELSE draw_triangle IN
       \E f \in Failures(prog, calls) :
          /\ calls' = calls \o Exec("draw", prog, f, "continue", iter)
          /\ pc' = IF Outcome(prog, f, "continue") = "returned" THEN "poll"
                   ELSE Outcome(prog, f, "continue")
    /\ UNCHANGED <<backend_formats, variant, owned, quit, active_sampler, angle, view_proj, iter,
                   payload, texture, file>>

StageDestroy ==
    /\ pc = "destroy"
    /\ calls' = calls \o Exec("destroy",
                              ResetAll("destroy", StageMembers(variant), owned)
                              \o DestroyContextCalls("instanced", owned),
                              0, "continue", iter)
    /\ owned' = HeldAfterReset(ContextMembers("instanced"),
                               HeldAfterReset(StageMembers(variant), owned))
    /\ pc' = "returned"
    /\ UNCHANGED <<backend_formats, variant, quit, active_sampler, angle, view_proj, iter,
                   payload, texture, file>>

NextStage ==
    \/ StageInitContext
    \/ StageInitScene
    \/ StagePoll
    \/ StageDraw
    \/ StageDestroy

SpecStage == InitStage /\ [][NextStage]_vars

(***************************************************************************)
(* app::update(angle) on its own: main has turned the camera for any       *)
(* number of frames, then runs up to MaxFrames more updates.               *)
(***************************************************************************)
\* How far from 0 and from the limit the camera stands at the start.
AngleMargin == 2

\* main's `view_proj = app::get_projection(width, height, radians(angle))`;
\*   get_projection p = <<angle>>
ProjectionCalls(a) == <<Plain("main", "get_projection", "", {}, <<a>>)>>

\* The angles main can hold: multiples of 0.5 inside the limit.  The first
\* copy of main.cpp is "refactored_ad", the second "refactored".
InitAngle ==
    /\ variant \in {"refactored_ad", "refactored"}
    /\ pc = "update"
    /\ owned = {}
    /\ quit = FALSE
    /\ active_sampler = 0
    /\ angle \in {a \in (1 - ANGLE_LIMIT)..(ANGLE_LIMIT - 1) :
                    \/ a <= AngleMargin - ANGLE_LIMIT
                    \/ a >= ANGLE_LIMIT - AngleMargin
                    \/ (a < AngleMargin /\ a > -AngleMargin)}
    /\ calls = Exec("main", ProjectionCalls(angle), 0, "continue", 0)
    /\ view_proj = get_projection(angle)
    /\ iter = 0
    /\ payload = MeshPayload("refactored")
    /\ texture = NoTexture
    /\ file = AssetFile
    /\ backend_formats = {}

\* app::update(angle) and the projection main rebuilds after it;
\*   SDL_GetKeyboardState p = <<the keys that are down>>
UpdateAngle ==
    /\ pc = "update"
    /\ iter < MaxFrames
    /\ \E keys \in SUBSET {"escape", "a", "d", "left", "right"} :
          /\ quit' = (quit \/ "escape" \in keys)
          /\ angle' = IF variant = "refactored" THEN AngleAfter(keys, angle)
                      ELSE AngleAfterAD(keys, angle)
          /\ view_proj' = get_projection(angle')
          /\ pc' = IF quit' THEN Head(Epilogue(variant)) ELSE "update"
          /\ calls' = calls
                \o <<[Exec("update", UpdateCalls, 0, "continue", iter + 1)[1]
                        EXCEPT !.p = <<keys>>]>>
                \o Exec("main", ProjectionCalls(angle'), 0, "continue", iter + 1)
    /\ iter' = iter + 1
    /\ UNCHANGED <<backend_formats, variant, owned, active_sampler, payload, texture, file>>

SpecAngle == InitAngle /\ [][UpdateAngle]_vars

(***************************************************************************)
(* app::update(rndr) of the single-file program on its own, from the state *)
(* frame::init leaves, with all six digit keys.                            *)
(***************************************************************************)
InitSampler ==
    /\ variant = "single"
    /\ pc = "update"
    /\ calls = <<>>
    /\ owned = {}
    /\ quit = FALSE
    /\ active_sampler = INITIAL_SAMPLER
    /\ angle = 0
    /\ view_proj = get_projection(0)
    /\ iter = 0
    /\ payload = MeshPayload(variant)
    /\ texture = NoTexture
    /\ file = AssetFile
    /\ backend_formats = {}

\* msg::info("Change sampler to ...") when the index changed;
\*   msg::info p = <<the sampler named>>
ChangeMessage(prv, now) ==
    IF prv # now THEN <<Plain("update", "msg::info", "", {}, <<now>>)>> ELSE <<>>

\*   SDL_GetKeyboardState p = <<the keys that are down>>
UpdateSampler ==
    /\ pc = "update"
    /\ iter < MaxFrames
    /\ \E keys \in SUBSET {"1", "2", "3", "4", "5", "6"} :
          /\ active_sampler' = SamplerAfter(keys, active_sampler)
          /\ calls' = calls
                \o <<[Exec("update", UpdateCalls, 0, "continue", iter + 1)[1]
                        EXCEPT !.p = <<keys>>]>>
                \o Exec("update", ChangeMessage(active_sampler, active_sampler'), 0,
                        "continue", iter + 1)
    /\ iter' = iter + 1
    /\ UNCHANGED <<backend_formats, variant, pc, owned, quit, angle, view_proj, payload,
                   texture, file>>

SpecSampler == InitSampler /\ [][UpdateSampler]_vars

(***************************************************************************)
(* sdl3::init_scene and sdl3::draw called with the first n of the pipeline *)
(* descriptions main builds (n = 2 is main itself).                        *)
(***************************************************************************)
\* init_scene: std::ranges::transform over the n descriptions, in order.
init_scene_descs(n, pl, tex) ==
    LET whole == init_scene(pl, tex)
        made == make_gfx_pipeline(0) \o make_gfx_pipeline(1)
        kept == IF n = 0 THEN <<>>
                ELSE IF n = 1 THEN make_gfx_pipeline(0)
                ELSE made
    IN <<whole[1]>> \o kept \o SubSeq(whole, Len(made) + 2, Len(whole))

\* draw reading scn.pipelines[k] without the bounds check.
draw_descs_unchecked(n, cnt, vp) == draw_refactored(cnt, vp)

\* draw: scn.pipelines.at(k) throws std::out_of_range when k >= n; nothing
\* catches it, so the calls after it are never made.
draw_descs(n, cnt, vp) ==
    LET whole == draw_refactored(cnt, vp)
        binds == {i \in 1..Len(whole) : whole[i].op = "SDL_BindGPUGraphicsPipeline"}
        at(i) == Cardinality({j \in binds : j < i})
        thrown == {i \in binds : at(i) >= n}
    IN IF thrown = {} THEN whole
       ELSE SubSeq(whole, 1, (CHOOSE i \in thrown : \A j \in thrown : i <= j) - 1)
            \o <<Plain("draw", "std::out_of_range", "", {}, <<>>)>>

InitDescs ==
    /\ variant = "refactored"
    /\ pc = Head(Prologue(variant))
    /\ calls = <<>>
    /\ owned = {}
    /\ quit = FALSE
    /\ active_sampler = 0
    /\ angle = 0
    /\ view_proj = get_projection(0)
    /\ iter = 0
    /\ \E n \in 0..2 : payload = MeshPayload(variant) @@ [descs |-> n]
    /\ texture = NoTexture
    /\ file = AssetFile
    /\ backend_formats = {}

InitSceneDescs ==
    /\ pc = "init_scene"
    /\ \E f \in Failures(init_scene_descs(payload.descs, payload, texture), calls),
          ub \in UBOutcomes :
          LET prog == init_scene_descs(payload.descs, payload, texture)
              es == WithShaderFormats(Exec("init_scene", prog, f, ub, iter),
                                      backend_formats) IN
          /\ calls' = calls \o es
          /\ pc' = PcAfter(variant, "init_scene", quit, prog, f, ub)
          /\ owned' = owned \cup (Created(es) \ Released(es))
    /\ UNCHANGED <<backend_formats, variant, quit, active_sampler, angle, view_proj, iter,
                   payload, texture, file>>

DrawDescs ==
    /\ pc = "draw"
    /\ LET prog == draw_descs(payload.descs, MeshCounts(variant), view_proj) IN
       \E f \in Failures(prog, calls) :
          /\ calls' = calls \o Exec("draw", prog, f, "continue", iter)
          /\ pc' = IF Outcome(prog, f, "continue") = "returned" /\ payload.descs < 2
                   THEN "terminated"
                   ELSE PcAfter(variant, "draw", quit, prog, f, "continue")
    /\ UNCHANGED <<backend_formats, variant, owned, quit, active_sampler, angle, view_proj, iter,
                   payload, texture, file>>

NextDescs ==
    \/ LoadAssets
    \/ InitContext
    \/ InitSceneDescs
    \/ PollEvents
    \/ DrawDescs
    \/ Update
    \/ DestroyScene
    \/ DestroyContext
    \/ MainReturn

SpecDescs == InitDescs /\ [][NextDescs]_vars

(***************************************************************************)
(* Reading the history.                                                    *)
(***************************************************************************)
Idx == 1..Len(calls)

\* The positions of the history where operation fn ran native call op.
At(fn, op) == {k \in Idx : calls[k].fn = fn /\ calls[k].op = op}
Of(fn) == {k \in Idx : calls[k].fn = fn}
Ops(op) == {k \in Idx : calls[k].op = op}

\* main has left its event loop and returned 0.
ExitedNormally == pc = "returned"

(***************************************************************************)
(* C1.                                                                     *)
(***************************************************************************)
\* The phase of main a top-level operation belongs to; asset loading is not
\* one of the operations the order is about.
Phase(fn) ==
    CASE fn = "init_context" -> 1
      [] fn = "init_scene" -> 2
      [] fn \in {"poll", "update", "draw"} -> 3
      [] fn = "destroy_scene" -> 4
      [] fn = "destroy_context" -> 5
      [] fn = "return" -> 6
      [] OTHER -> 0

\* The history without the asset loading.
IsOperation(e) == Phase(e.fn) # 0
Operations == SelectSeq(calls, IsOperation)

\* The place of poll, update and draw inside one iteration: poll, then
\* update, then draw, or (drawFirst) poll, then draw, then update.
Slot(fn, drawFirst) ==
    CASE fn = "poll" -> 0
      [] fn = "update" -> IF drawFirst THEN 2 ELSE 1
      [] OTHER -> IF drawFirst THEN 1 ELSE 2

\* Entry a does not come after entry b in the order of main.
InOrder(a, b, drawFirst) ==
    \/ Phase(a.fn) < Phase(b.fn)
    \/ /\ Phase(a.fn) = Phase(b.fn)
       /\ Phase(a.fn) = 3 =>
             \/ a.it < b.it
             \/ a.it = b.it /\ Slot(a.fn, drawFirst) <= Slot(b.fn, drawFirst)

\* The variant has an update step (the clear-screen and the instanced stage
\* have none).
HasUpdate(v) == v \in {"single", "refactored"}

\* Every phase ran, and every iteration of the loop ran each of `steps` once.
AllRan(steps) ==
    /\ \A fn \in {"init_context", "destroy_context"} : Of(fn) # {}
    /\ variant # "clear" => Of("init_scene") # {}
    /\ iter >= 1
    /\ \A n \in 1..iter :
          /\ Cardinality({k \in At("poll", "SDL_PollEvent") : calls[k].it = n}) = 1
          /\ "update" \in steps =>
                Cardinality({k \in At("update", "SDL_GetKeyboardState") : calls[k].it = n}) = 1
          /\ Cardinality({k \in At("draw", "SDL_AcquireGPUCommandBuffer") : calls[k].it = n}) = 1

\* C1 as stated: in every run of main that exits normally the operations
\* happen in the order context init, scene init, loop of (poll, update, draw),
\* scene destroy, context destroy; no draw before scene init or after scene
\* destroy.
C1_PollUpdateDraw ==
    ExitedNormally =>
       /\ \A k \in 1..(Len(Operations) - 1) :
             InOrder(Operations[k], Operations[k + 1], FALSE)
       /\ AllRan({"poll", "update", "draw"})

\* C1, amended: context init, scene init, loop, scene destroy, context
\* destroy happen in this order; every iteration polls first and then runs
\* draw once and, where the variant has an update step, update once: update
\* before draw in the single-file program, draw before update in the
\* refactored program; no draw before scene init or after scene destroy.
C1_MainOrder ==
    ExitedNormally =>
       /\ \A k \in 1..(Len(Operations) - 1) :
             InOrder(Operations[k], Operations[k + 1], variant = "refactored")
       /\ (~HasUpdate(variant)) => Of("update") = {}
       /\ AllRan(IF HasUpdate(variant) THEN {"poll", "update", "draw"}
                 ELSE {"poll", "draw"})

\* A refactored run that went twice round the loop and exited normally.
C1_Witness ==
    /\ ExitedNormally
    /\ variant = "refactored"
    /\ iter = MaxFrames
    /\ \E j \in Of("draw"), k \in Of("update") : j < k /\ calls[j].it = calls[k].it

(***************************************************************************)
(* C2.                                                                     *)
(***************************************************************************)
GpuCreateOps == CreateOps \ {"SDL_CreateGPUDevice", "SDL_CreateWindow"}

\* Handle created at position j has been released before position k.
ReleasedBetween(j, k) ==
    \E r \in (j + 1)..(k - 1) : calls[r].op \in ReleaseOps /\ calls[r].h = calls[j].h

\* C2: every GPU-owned resource is released before the device is destroyed,
\* the window is unclaimed before the device or the window is destroyed, and
\* SDL_Quit comes only after both handles have been reset.
C2_ShutdownOrder ==
    /\ \A k \in Ops("SDL_DestroyGPUDevice") :
          \A j \in 1..(k - 1) :
             (calls[j].op \in GpuCreateOps /\ calls[j].ok) => ReleasedBetween(j, k)
    /\ \A k \in Ops("SDL_DestroyGPUDevice") \cup Ops("SDL_DestroyWindow") :
          \E j \in Ops("SDL_ReleaseWindowFromGPUDevice") : j < k
    /\ \A k \in Ops("SDL_Quit") :
          /\ \E j \in Ops("SDL_DestroyGPUDevice") : j < k
          /\ \E j \in Ops("SDL_DestroyWindow") : j < k

\* A refactored run that shut down: scene resources, then the context.
C2_Witness ==
    /\ ExitedNormally
    /\ variant = "refactored"
    /\ Ops("SDL_Quit") # {}
    /\ At("destroy_scene", "SDL_ReleaseGPUSampler") # {}

(***************************************************************************)
(* C3.                                                                     *)
(***************************************************************************)
CreatesBefore(h, k) ==
    Cardinality({j \in 1..(k - 1) : calls[j].op \in CreateOps /\ calls[j].ok /\ calls[j].h = h})
ReleasesBefore(h, k) ==
    Cardinality({j \in 1..(k - 1) : calls[j].op \in ReleaseOps /\ calls[j].h = h})

\* C3: on a normally exiting run every handle that was created is released
\* exactly once: each release finds its handle created and not yet released,
\* and each creation is followed by a release of the handle.
C3_ReleasedExactlyOnce ==
    ExitedNormally =>
       /\ \A k \in Idx : calls[k].op \in ReleaseOps =>
             CreatesBefore(calls[k].h, k) = ReleasesBefore(calls[k].h, k) + 1
       /\ \A k \in Idx : (calls[k].op \in CreateOps /\ calls[k].ok) =>
             ReleasedBetween(k, Len(calls) + 1)

\* A single-file run that exited: three transfer buffers, six samplers,
\* shaders, pipeline, buffers, textures, device and window were created.
C3_Witness ==
    /\ ExitedNormally
    /\ variant = "single"
    /\ Cardinality(Ops("SDL_CreateGPUTransferBuffer")) = 3
    /\ Cardinality(Ops("SDL_ReleaseGPUSampler")) = 6

(***************************************************************************)
(* C4.                                                                     *)
(***************************************************************************)
ContextSteps == {"SDL_Init", "SDL_CreateGPUDevice", "SDL_CreateWindow",
                 "SDL_ClaimWindowForGPUDevice"}

\* init_context has returned a context to main.
ContextReturned ==
    /\ Of("init_context") # {}
    /\ \/ pc \notin {"aborted", "crashed"}
       \/ \E j \in Idx : calls[j].fn \notin {"init_context", "load_assets"}

\* C4: context init runs the four steps; a step that fails is followed by
\* the diagnostic and the end of the process, nothing runs after it and no
\* context is returned; a returned context went through the four steps, all
\* successful, and its window is claimed by its device.
C4_ContextInitAborts ==
    /\ \A k \in Of("init_context") :
          (calls[k].op \in ContextSteps /\ ~calls[k].ok) =>
             /\ Len(calls) = k + 1
             /\ calls[k + 1].op = "msg::error"
             /\ pc = "aborted"
    /\ ContextReturned =>
          /\ \A op \in ContextSteps :
                /\ Cardinality(At("init_context", op)) = 1
                /\ \A k \in At("init_context", op) : calls[k].ok
          /\ \A k \in At("init_context", "SDL_ClaimWindowForGPUDevice") :
                /\ calls[k].args = {"gpu", "window"}
                /\ \E j \in At("init_context", "SDL_CreateGPUDevice") : j < k
                /\ \E j \in At("init_context", "SDL_CreateWindow") : j < k

\* The window claim failed: the diagnostic was printed and the process ended.
C4_Witness ==
    /\ pc = "aborted"
    /\ \E k \in At("init_context", "SDL_ClaimWindowForGPUDevice") : ~calls[k].ok

(***************************************************************************)
(* C5.                                                                     *)
(***************************************************************************)
\* C5: every fallible native call of resource creation, upload and
\* rendering is checked right after the call: a call that fails is followed
\* by the diagnostic and the end of the process, and no native call is ever
\* handed a failed result.
C5_EveryFailureAborts ==
    \A k \in Idx :
       /\ (calls[k].fallible /\ ~calls[k].ok) =>
             /\ Len(calls) = k + 1
             /\ calls[k + 1].op = "msg::error"
             /\ pc = "aborted"
       /\ ~calls[k].bad

(***************************************************************************)
(* C6.                                                                     *)
(***************************************************************************)
BindOps == {"SDL_BindGPUVertexBuffers", "SDL_BindGPUIndexBuffer",
            "SDL_BindGPUFragmentSamplers", "SDL_BindGPUGraphicsPipeline"}
DrawOps == {"SDL_DrawGPUIndexedPrimitives", "SDL_DrawGPUPrimitives"}

\* The step of a frame a native call of draw belongs to; the uniform push
\* is placed by the slot it is given.
FrameStep(op, push) ==
    CASE op = "SDL_AcquireGPUCommandBuffer" -> 1
      [] op = "SDL_PushGPUVertexUniformData" -> push
      [] op = "SDL_WaitAndAcquireGPUSwapchainTexture" -> 3
      [] op = "SDL_BeginGPURenderPass" -> 4
      [] op \in BindOps \cup DrawOps -> 6
      [] op = "SDL_EndGPURenderPass" -> 7
      [] op = "SDL_SubmitGPUCommandBuffer" -> 8
      [] OTHER -> 9

\* The history of draw in iteration n, and whether that draw has returned.
FrameOf(n) == SelectSeq(calls, LAMBDA e : e.fn = "draw" /\ e.it = n)
Count(frame, ops) == Cardinality({k \in 1..Len(frame) : frame[k].op \in ops})
DrawReturned(frame) ==
    /\ frame # <<>>
    /\ frame[Len(frame)].op # "msg::error"

\* The steps of one returned draw are in order, each of `once` exactly once.
FrameInOrder(frame, push, once) ==
    /\ \A k \in 1..(Len(frame) - 1) :
          FrameStep(frame[k].op, push) <= FrameStep(frame[k + 1].op, push)
    /\ \A op \in once : Count(frame, {op}) = 1

FrameOnce == {"SDL_AcquireGPUCommandBuffer", "SDL_WaitAndAcquireGPUSwapchainTexture",
              "SDL_BeginGPURenderPass", "SDL_EndGPURenderPass",
              "SDL_SubmitGPUCommandBuffer"}

\* C6 as stated: every draw acquires a command buffer, pushes the uniform
\* data, acquires the swapchain image, begins the pass, binds and draws, ends
\* the pass and submits the command buffer once, in this order.
C6_PushBeforeSwapchain ==
    \A n \in 1..iter :
       DrawReturned(FrameOf(n)) =>
          FrameInOrder(FrameOf(n), 2, FrameOnce \cup {"SDL_PushGPUVertexUniformData"})

\* C6, amended: every draw acquires a command buffer, acquires the swapchain
\* image, begins the render pass, binds and draws, ends the pass and submits
\* the command buffer, in this order and each once; binds and draws lie
\* between begin and end.  The uniform data is pushed once by the programs
\* that have a camera, after the command buffer is acquired and before the
\* first bind: before the swapchain image is acquired in the refactored
\* program, right after the render pass begins in the single-file program;
\* the clear-screen and the instanced stage push none.
C6_FrameOrder ==
    \A n \in 1..iter :
       DrawReturned(FrameOf(n)) =>
          CASE variant = "refactored" ->
                  FrameInOrder(FrameOf(n), 2, FrameOnce \cup {"SDL_PushGPUVertexUniformData"})
            [] variant = "single" ->
                  FrameInOrder(FrameOf(n), 5, FrameOnce \cup {"SDL_PushGPUVertexUniformData"})
            [] OTHER ->
                  /\ FrameInOrder(FrameOf(n), 2, FrameOnce)
                  /\ Count(FrameOf(n), {"SDL_PushGPUVertexUniformData"}) = 0

\* A single-file frame was drawn: the push came after the pass began.
C6_Witness ==
    /\ variant = "single"
    /\ iter = MaxFrames
    /\ \E j \in At("draw", "SDL_BeginGPURenderPass"),
          k \in At("draw", "SDL_PushGPUVertexUniformData") :
          j < k /\ calls[j].it = MaxFrames /\ calls[k].it = MaxFrames
    /\ \E k \in At("draw", "SDL_SubmitGPUCommandBuffer") : calls[k].it = MaxFrames

(***************************************************************************)
(* C7.                                                                     *)
(***************************************************************************)
\* The draw calls of a frame, in order.
DrawCallsOf(frame) == SelectSeq(frame, LAMBDA e : e.op \in DrawOps)

IsOverlay(e) == e.op = "SDL_DrawGPUPrimitives" /\ e.p = <<GRID_VERTICES, 1>>
IsIndexed(e) == e.op = "SDL_DrawGPUIndexedPrimitives"

\* One indexed draw, optionally followed by one overlay draw.
OneOrTwoDraws(ds) ==
    \/ Len(ds) = 1 /\ IsIndexed(ds[1])
    \/ Len(ds) = 2 /\ IsIndexed(ds[1]) /\ IsOverlay(ds[2])

\* C7 as stated: every frame issues one or two draw calls, an indexed draw
\* optionally followed by the 6-vertex 1-instance overlay draw; never zero,
\* never more than two, the overlay never first.
C7_OneOrTwoDraws ==
    \A n \in 1..iter :
       DrawReturned(FrameOf(n)) => OneOrTwoDraws(DrawCallsOf(FrameOf(n)))

\* C7, amended: a frame of the clear-screen stage issues no draw call; a
\* frame of the instanced and of the single-file program issues exactly one,
\* the indexed draw; a frame of the refactored program issues exactly two,
\* the indexed draw followed by the 6-vertex 1-instance overlay draw.  No
\* frame issues more than two and the overlay never precedes the indexed draw.
C7_DrawCallsPerFrame ==
    \A n \in 1..iter :
       DrawReturned(FrameOf(n)) =>
          LET ds == DrawCallsOf(FrameOf(n)) IN
          CASE variant = "clear" -> ds = <<>>
            [] variant = "refactored" -> Len(ds) = 2 /\ OneOrTwoDraws(ds)
            [] OTHER -> Len(ds) = 1 /\ OneOrTwoDraws(ds)

\* A frame of the refactored program: the mesh, then the grid.
C7_Witness ==
    /\ variant = "refactored"
    /\ DrawReturned(FrameOf(1))
    /\ Len(DrawCallsOf(FrameOf(1))) = 2

(***************************************************************************)
(* C8.                                                                     *)
(***************************************************************************)
\* The payloads an upload function packs, in packing order (size_t sizes).
PackedSizes(fn) ==
    CASE fn = "upload_to_gpu" -> <<payload.v, payload.i, payload.n, texture.size>>
      [] fn = "create_and_copy_vertices_indicies" -> <<payload.v, payload.i>>
      [] fn = "create_and_load_texture" -> <<texture.size>>
      [] OTHER -> <<payload.n>>

RECURSIVE SumTo(_, _)
SumTo(sizes, k) == IF k = 0 THEN 0 ELSE SumTo(sizes, k - 1) + sizes[k]

\* C8: for all payload sizes the transfer buffer is as large as the sum of
\* the payloads; payload k is copied into the mapping at the sum of the
\* payloads before it (packed in order, no overlap); and the copy pass reads
\* each payload from that same offset.
C8_SizeAndOffsets ==
    (pc = "returned" /\ calls # <<>>) =>
       LET sizes == PackedSizes(calls[Len(calls)].fn)
           tb == SelectSeq(calls, LAMBDA e : e.op = "SDL_CreateGPUTransferBuffer")
           cp == SelectSeq(calls, LAMBDA e : e.op = "memcpy")
           ub == SelectSeq(calls, LAMBDA e : e.op = "SDL_UploadToGPUBuffer")
           ut == SelectSeq(calls, LAMBDA e : e.op = "SDL_UploadToGPUTexture")
       IN /\ Len(tb) = 1 /\ tb[1].p = <<SumTo(sizes, Len(sizes))>>
          /\ Len(cp) = Len(sizes)
          /\ \A k \in 1..Len(cp) : cp[k].p = <<SumTo(sizes, k - 1), sizes[k]>>
          /\ \A k \in 1..Len(ub) : ub[k].p = <<SumTo(sizes, k - 1), sizes[k]>>
          /\ ut # <<>> => ut[1].p[1] = SumTo(sizes, Len(sizes) - 1)

(***************************************************************************)
(* C9.                                                                     *)
(***************************************************************************)
UploadOps == {"SDL_UploadToGPUBuffer", "SDL_UploadToGPUTexture"}

\* The step of an upload a native call belongs to.
UploadStep(op) ==
    CASE op = "SDL_CreateGPUTransferBuffer" -> 1
      [] op = "SDL_MapGPUTransferBuffer" -> 2
      [] op = "memcpy" -> 3
      [] op = "SDL_UnmapGPUTransferBuffer" -> 4
      [] op = "SDL_AcquireGPUCommandBuffer" -> 5
      [] op = "SDL_BeginGPUCopyPass" -> 6
      [] op \in UploadOps -> 7
      [] op = "SDL_EndGPUCopyPass" -> 8
      [] op = "SDL_SubmitGPUCommandBuffer" -> 9
      [] op = "SDL_ReleaseGPUTransferBuffer" -> 10
      [] OTHER -> 0

\* The position after the history of the upload that starts at position c:
\* the release of its transfer buffer, or the end of the history.
UploadEnd(c) ==
    LET rs == {r \in (c + 1)..Len(calls) : calls[r].op = "SDL_ReleaseGPUTransferBuffer"}
    IN IF rs = {} THEN Len(calls) ELSE CHOOSE r \in rs : \A q \in rs : r <= q

\* The positions where a transfer buffer was created.
TransferBuffers == {c \in Ops("SDL_CreateGPUTransferBuffer") : calls[c].ok}

UploadOnce == {"SDL_MapGPUTransferBuffer", "SDL_UnmapGPUTransferBuffer",
               "SDL_AcquireGPUCommandBuffer", "SDL_BeginGPUCopyPass",
               "SDL_EndGPUCopyPass", "SDL_SubmitGPUCommandBuffer"}

\* C9: in every upload the transfer buffer is created, mapped, filled and
\* unmapped before the copy pass begins; all copies lie between the begin and
\* the end of one copy pass; the transfer buffer is released by the call
\* right after the submit (no wait in between, never before the submit); and
\* no transfer buffer is created, used or alive while the frame loop runs.
C9_TransferBufferLifecycle ==
    /\ \A c \in TransferBuffers :
          /\ \A k \in c..(UploadEnd(c) - 1) :
                /\ UploadStep(calls[k].op) # 0
                /\ UploadStep(calls[k].op) <= UploadStep(calls[k + 1].op)
                /\ calls[k].sub = calls[k + 1].sub
          /\ calls[UploadEnd(c)].op = "SDL_ReleaseGPUTransferBuffer" =>
                /\ \A op \in UploadOnce :
                      Cardinality({k \in c..UploadEnd(c) : calls[k].op = op}) = 1
                /\ \E k \in c..UploadEnd(c) : calls[k].op = "memcpy"
                /\ calls[UploadEnd(c) - 1].op = "SDL_SubmitGPUCommandBuffer"
    /\ \A k \in Ops("SDL_ReleaseGPUTransferBuffer") \cup Ops("SDL_BeginGPUCopyPass")
                \cup Ops("SDL_UploadToGPUBuffer") \cup Ops("SDL_UploadToGPUTexture") :
          \E c \in TransferBuffers : c < k /\ k <= UploadEnd(c)
    /\ \A k \in Idx : Phase(calls[k].fn) = 3 =>
          /\ UploadStep(calls[k].op) \in {0, 5, 9}
          /\ calls[k].args \cap {"transfer_buffer", "copy_pass", "copy_cmd"} = {}
    /\ \A k \in Ops("SDL_PollEvent") :
          CreatesBefore("transfer_buffer", k) = ReleasesBefore("transfer_buffer", k)

\* The refactored program uploaded through its one transfer buffer and went
\* on to draw.
C9_Witness ==
    /\ variant = "refactored"
    /\ Cardinality(Ops("SDL_ReleaseGPUTransferBuffer")) = 1
    /\ Cardinality(Ops("SDL_UploadToGPUBuffer")) = 3
    /\ Ops("SDL_UploadToGPUTexture") # {}
    /\ At("draw", "SDL_SubmitGPUCommandBuffer") # {}

(***************************************************************************)
(* C10.                                                                    *)
(***************************************************************************)
\* The buffers and the texture a variant's scene is filled with.
SceneBuffers(v) ==
    CASE v \in {"refactored", "single"} -> {"vertex_buffer", "index_buffer", "instance_buffer"}
      [] v = "instanced" -> {"vertex_buffer", "index_buffer"}
      [] OTHER -> {}

SceneTexture(v) == IF v = "refactored" THEN "uv_texture" ELSE "grid_texture"

\* init_scene / frame::init has returned the scene to main.
SceneReturned ==
    /\ Of("init_scene") # {}
    /\ \/ pc \in {"poll", "update", "draw", "destroy_scene", "destroy_context",
                  "return", "returned"}
       \/ \E k \in Idx : Phase(calls[k].fn) >= 3

\* The copies into destination d.
UploadsTo(d) == {k \in Idx : calls[k].op \in UploadOps /\ d \in calls[k].args}

\* Vertices, indices and every sub-image of the texture were copied once,
\* during init.
StaticUploadedOnce ==
    /\ \A k \in Idx : (calls[k].op \in UploadOps /\ "instance_buffer" \notin calls[k].args)
                         => calls[k].fn = "init_scene"
    /\ SceneReturned =>
          /\ \A b \in SceneBuffers(variant) \ {"instance_buffer"} :
                Cardinality(UploadsTo(b)) = 1
          /\ \A si \in 1..Len(texture.sub_images) :
                Cardinality({k \in UploadsTo(SceneTexture(variant)) :
                               /\ calls[k].p[2] = texture.sub_images[si].mipmap_index
                               /\ calls[k].p[3] = texture.sub_images[si].layer_index}) = 1
          /\ Cardinality(UploadsTo(SceneTexture(variant))) = Len(texture.sub_images)

SubImageWords(si) ==
    ((si.width + 3) \div 4) * ((si.height + 3) \div 4) * BC1_BLOCK_WORDS

SubImageSpans(tex) ==
    [k \in 1..Len(tex.sub_images) |-> SubImageWords(tex.sub_images[k])]

Decoded == pc # "read_image_file" /\ texture # NoTexture

TextureCopies == SelectSeq(calls, LAMBDA e : e.op = "SDL_UploadToGPUTexture")

\* The descriptors are the pairs (layer, mip), each once.
OnePerLayerAndMip(tex) ==
    /\ Len(tex.sub_images) = tex.layer_count * tex.mipmap_count
    /\ \A l \in 0..(tex.layer_count - 1), m \in 0..(tex.mipmap_count - 1) :
          \E k \in 1..Len(tex.sub_images) :
             tex.sub_images[k].layer_index = l /\ tex.sub_images[k].mipmap_index = m

\* C12: a texture of L layers and M mip levels has L*M descriptors, one per
\* (layer, mip) pair, and upload_to_gpu issues one texture-region copy per
\* descriptor, reading the transfer buffer at |V|+|I|+|N| plus the
\* descriptor's offset and writing the descriptor's layer and mip level.
C12_OneCopyPerSubImage ==
    (pc = "returned" /\ calls[Len(calls)].fn = "upload_to_gpu") =>
       /\ OnePerLayerAndMip(texture)
       /\ Len(TextureCopies) = Len(texture.sub_images)
       /\ \A k \in 1..Len(TextureCopies) :
             LET si == texture.sub_images[k] IN
             /\ TextureCopies[k].p[1] = payload.v + payload.i + payload.n + si.offset
             /\ TextureCopies[k].p[2] = si.mipmap_index
             /\ TextureCopies[k].p[3] = si.layer_index

(***************************************************************************)
(* C13.                                                                    *)
(***************************************************************************)
\* The vertices triangle t of an index list uses.
Triangle(indices, t) == {indices[3 * t + 1], indices[3 * t + 2], indices[3 * t + 3]}

\* The four consecutive vertices of face f.
FaceVertices(f) == (4 * f)..(4 * f + 3)

CubeProgram == variant \in {"refactored", "single"}

\* C13: every index of the cube is in [0, vertex_count); the index list is
\* a whole number of triangles, 36 indices over 24 vertices; triangles 2f and
\* 2f+1 are two different proper triangles over the four vertices of face f
\* and cover its quad, so each of the 6 faces becomes exactly two triangles
\* that use only its own vertices.
C13_CubeIndices ==
    CubeProgram =>
       LET vertices == payload.mesh.vertices
           indices == payload.mesh.indices
       IN /\ \A k \in 1..Len(indices) : 0 <= indices[k] /\ indices[k] < Len(vertices)
          /\ Len(indices) % 3 = 0
          /\ Len(indices) = CUBE_INDICES /\ Len(vertices) = CUBE_VERTICES
          /\ \A f \in 0..5 :
                LET a == Triangle(indices, 2 * f)
                    b == Triangle(indices, 2 * f + 1)
                IN /\ Cardinality(a) = 3 /\ Cardinality(b) = 3
                   /\ a # b
                   /\ a \cup b = FaceVertices(f)

\* The single-file program drew the cube it generated with one indexed draw.
C13_Witness ==
    /\ variant = "single"
    /\ \E k \in Ops("SDL_DrawGPUIndexedPrimitives") :
          calls[k].p[1] = Len(payload.mesh.indices)

(***************************************************************************)
(* C14.                                                                    *)
(***************************************************************************)
SamplerHandles == {SamplerName(k) : k \in 0..5}

\* What a frame does apart from the choice of sampler: its native calls in
\* order, their parameters and the objects they are given.
ApartFromSampler(frame) ==
    [k \in 1..Len(frame) |->
        [op |-> frame[k].op, args |-> frame[k].args \ SamplerHandles, p |-> frame[k].p]]

SamplerBinds(frame) ==
    SelectSeq(frame, LAMBDA e : e.op = "SDL_BindGPUFragmentSamplers")

\* C14: in the program with the sampler selection every returned frame is
\* the same as the first one apart from the sampler bound (same buffers,
\* texture, pipeline and draw parameters), binds exactly one of the six
\* samplers together with the texture, the frame after an update binds the
\* sampler selected then, and samplers are created only in init and released
\* only in destroy, never by update.
C14_OnlySamplerBindingChanges ==
    variant = "single" =>
       /\ \A n \in 1..iter :
             DrawReturned(FrameOf(n)) =>
                /\ ApartFromSampler(FrameOf(n)) = ApartFromSampler(FrameOf(1))
                /\ Len(SamplerBinds(FrameOf(n))) = 1
                /\ Cardinality(SamplerBinds(FrameOf(n))[1].args \cap SamplerHandles) = 1
                /\ "grid_texture" \in SamplerBinds(FrameOf(n))[1].args
       /\ (calls # <<>> /\ calls[Len(calls)].fn = "draw") =>
             \A k \in 1..Len(SamplerBinds(FrameOf(iter))) :
                SamplerName(active_sampler) \in SamplerBinds(FrameOf(iter))[k].args
       /\ \A k \in Idx :
             /\ calls[k].fn = "update" => calls[k].op \notin CreateOps \cup ReleaseOps
             /\ calls[k].op = "SDL_CreateGPUSampler" => calls[k].fn = "init_scene"
             /\ calls[k].op = "SDL_ReleaseGPUSampler" => calls[k].fn = "destroy_scene"

\* Two frames of one run bound different samplers.
C14_Witness ==
    /\ variant = "single"
    /\ \E n, m \in 1..iter :
          /\ DrawReturned(FrameOf(n)) /\ DrawReturned(FrameOf(m))
          /\ SamplerBinds(FrameOf(n))[1].args # SamplerBinds(FrameOf(m))[1].args

(***************************************************************************)
(* C15.                                                                    *)
(***************************************************************************)
Last(seq) == seq[Len(seq)]

\* main is at the statement after which `while (not quit)` is evaluated: the
\* last statement before the loop or the last statement of its body.
BeforeLoopTest == pc \in {Last(Prologue(variant)), Last(LoopBody(variant))}

InLoopBody == Has(LoopBody(variant), pc)

\* C15: the loop is entered again, or left for the statements after it,
\* only by the test at the head of an iteration, and it is left exactly when
\* the flag is true there; inside an iteration the flag is not tested (the
\* statement that follows runs whatever the flag is, unless the process
\* aborts), so there is one test per iteration; the flag is set only while the
\* events are polled (quit event, Escape key-down) or by update on Escape in
\* the refactored program, only those events set it, and once true it stays
\* true.
C15_SingleExitByQuitFlag ==
    [][/\ (pc' # pc /\ pc' \in {Head(LoopBody(variant)), Head(Epilogue(variant))}) =>
            /\ BeforeLoopTest
            /\ (pc' = Head(Epilogue(variant))) = quit'
       /\ (InLoopBody /\ ~BeforeLoopTest) =>
            pc' \in {LoopBody(variant)[IndexOf(LoopBody(variant), pc) + 1],
                     "aborted", "crashed"}
       /\ (~quit /\ quit') =>
            (pc = "poll" \/ (pc = "update" /\ variant = "refactored"))
       /\ \A e \in Events : PollSetsQuit(variant, e) => e \in {"quit", "escape_down"}
       /\ quit => quit'
      ]_vars

\* The loop ran more than one iteration and was left with the flag set.
C15_Witness ==
    /\ quit
    /\ pc = Head(Epilogue(variant))
    /\ iter > 1

(***************************************************************************)
(* C16.                                                                    *)
(***************************************************************************)
\* The statements of main that initialise and create the resources.
InitPhases == {"load_assets", "init_context", "init_scene"}

\* main has returned from its only return statement, `return 0`, after
\* leaving the loop on the flag and destroying the scene, then the context.
ReturnedZero ==
    /\ pc = "returned"
    /\ quit
    /\ Of("destroy_context") # {}
    /\ \A j \in Of("destroy_scene"), k \in Of("destroy_context") : j < k
    /\ Has(Epilogue(variant), "destroy_scene") => Of("destroy_scene") # {}

\* A native call of initialisation failed and the process did not abort.
InitFailureSurvived ==
    \E k \in Idx : calls[k].fn \in InitPhases /\ ~calls[k].ok /\ pc # "aborted"

\* C16: the quit event or Escape is delivered (in iteration MaxFrames at the
\* latest); unless a native call fails the program then leaves the loop,
\* destroys the scene, then the context, and returns 0; and a native call
\* that fails during initialisation or resource creation aborts the process,
\* main never goes on or returns after it.
C16_QuitReturnsZeroFailureAborts ==
    /\ <>(Faults(calls) > 0 \/ ReturnedZero)
    /\ [](~InitFailureSurvived)

(***************************************************************************)
(* C17.                                                                    *)
(***************************************************************************)
\* C17: every shader is created in DXIL when the backend of the device
\* reports DXIL among its formats and in SPIR-V otherwise, and the format it
\* is created in is one of the formats the backend reports, whatever backend
\* the device requested for DXIL or SPIR-V runs on.
C17_ShaderFormatSupported ==
    \A k \in Ops("SDL_CreateGPUShader") :
       /\ k > 1
       /\ calls[k - 1].op = "SDL_GetGPUShaderFormats"
       /\ calls[k - 1].p = <<backend_formats>>
       /\ calls[k].p[1] = (IF "DXIL" \in backend_formats THEN "DXIL" ELSE "SPIRV")
       /\ calls[k].p[1] \in backend_formats

\* A shader was created on a backend that does not take DXIL.
C17_Witness ==
    /\ pc = "returned"
    /\ "DXIL" \notin backend_formats
    /\ \E k \in Ops("SDL_CreateGPUShader") : calls[k].ok /\ calls[k].p = <<"SPIRV">>

(***************************************************************************)
(* C18.                                                                    *)
(***************************************************************************)
\* The render passes that bind the depth texture as depth-stencil target.
DepthPasses ==
    {k \in Ops("SDL_BeginGPURenderPass") : "depth_texture" \in calls[k].args}

\* The creations of the depth texture and of the pipelines that succeeded.
DepthTextures ==
    {t \in Ops("SDL_CreateGPUTexture") : calls[t].h = "depth_texture" /\ calls[t].ok}
Pipelines == {j \in Ops("SDL_CreateGPUGraphicsPipeline") : calls[j].ok}

\* C18: in a program whose render pass binds a depth target, every pipeline
\* declares a depth-stencil target whose format is the format the depth
\* texture was created with, and a colour target whose format is the
\* swapchain texture format asked for the claimed window.
C18_TargetFormatsMatch ==
    DepthPasses # {} =>
       \A j \in Pipelines :
          /\ calls[j].p[3]
          /\ \A t \in DepthTextures : calls[j].p[2] = calls[t].p[1]
          /\ \E g \in Ops("SDL_GetGPUSwapchainTextureFormat") :
                /\ g < j
                /\ calls[g].args = {"gpu", "window"}
                /\ calls[j].p[1] = calls[g].p[1]

(***************************************************************************)
(* C19.                                                                    *)
(***************************************************************************)
Frames == {calls[k].it : k \in At("draw", "SDL_AcquireGPUCommandBuffer")}

\* The positions of a frame where op is called.
InFrame(frame, op) == {k \in 1..Len(frame) : frame[k].op = op}

\* The stencil state <<compare_op, fail_op>> of the pipeline bound when call
\* k of the frame is recorded (<<>>: no pipeline is bound yet).
StencilStateAt(frame, k) ==
    LET binds == {b \in InFrame(frame, "SDL_BindGPUGraphicsPipeline") : b < k}
    IN IF binds = {} THEN <<>>
       ELSE LET b == CHOOSE x \in binds : \A y \in binds : y <= x
                made == {j \in Ops("SDL_CreateGPUGraphicsPipeline") :
                            calls[j].ok /\ calls[j].h \in frame[b].args}
            IN IF made = {} THEN <<>> ELSE calls[CHOOSE j \in made : TRUE].p

\* The stencil reference in force when call k of the frame is recorded.
ReferenceAt(frame, k) ==
    LET sets == {r \in InFrame(frame, "SDL_SetGPUStencilReference") : r < k}
    IN IF sets = {} THEN <<>>
       ELSE frame[CHOOSE x \in sets : \A y \in sets : y <= x].p

MaskerDraws(frame) ==
    {k \in InFrame(frame, "SDL_DrawGPUPrimitives") :
        StencilStateAt(frame, k) = <<"NEVER", "REPLACE">>}
MaskeeDraws(frame) ==
    {k \in InFrame(frame, "SDL_DrawGPUPrimitives") :
        StencilStateAt(frame, k) # <<>> /\ StencilStateAt(frame, k)[1] = "EQUAL"}

\* C19: a frame of the stencil stage draws the masking triangle under the
\* masker pipeline (compare NEVER, REPLACE on fail) first, then the masked
\* triangle under the maskee pipeline (compare EQUAL) with the same stencil
\* reference; no maskee draw precedes the masker draw of its frame.
C19_MaskerBeforeMaskee ==
    variant = "stencil" =>
       \A n \in Frames :
          LET frame == FrameOf(n) IN
          /\ \A e \in MaskeeDraws(frame) : \E m \in MaskerDraws(frame) : m < e
          /\ DrawReturned(frame) =>
                /\ Cardinality(MaskerDraws(frame)) = 1
                /\ Cardinality(MaskeeDraws(frame)) = 1
                /\ Cardinality(InFrame(frame, "SDL_DrawGPUPrimitives")) = 2
                /\ \A m \in MaskerDraws(frame), e \in MaskeeDraws(frame) :
                      /\ ReferenceAt(frame, m) # <<>>
                      /\ ReferenceAt(frame, e) = ReferenceAt(frame, m)

C19_Witness ==
    /\ variant = "stencil"
    /\ \E n \in Frames :
          /\ DrawReturned(FrameOf(n))
          /\ MaskerDraws(FrameOf(n)) # {}
          /\ MaskeeDraws(FrameOf(n)) # {}

(***************************************************************************)
(* C20.                                                                    *)
(***************************************************************************)
\* The context is a 1920x1080 window and the upload was the triangle.
TriangleUploaded ==
    /\ variant = "triangle"
    /\ \A w \in Ops("SDL_CreateWindow") : calls[w].p = <<1920, 1080>>
    /\ payload.mesh = [vertex_count |-> 3, index_count |-> 0]

\* C20: with the 3-vertex, 0-index triangle uploaded in a 1920x1080 context,
\* a draw call that returns binds one vertex buffer at slot 0, binds no index
\* buffer, and issues one draw, non-indexed, of 3 vertices and 1 instance,
\* between the begin and the end of the render pass.
C20_TriangleDraw ==
    TriangleUploaded =>
       \A n \in Frames :
          LET frame == FrameOf(n) IN
          DrawReturned(frame) =>
             /\ Cardinality(InFrame(frame, "SDL_BindGPUVertexBuffers")) = 1
             /\ \A b \in InFrame(frame, "SDL_BindGPUVertexBuffers") :
                   /\ frame[b].p = <<0, 1>>
                   /\ frame[b].args = {"render_pass", "vertex_buffer"}
             /\ InFrame(frame, "SDL_BindGPUIndexBuffer") = {}
             /\ InFrame(frame, "SDL_DrawGPUIndexedPrimitives") = {}
             /\ Cardinality(InFrame(frame, "SDL_DrawGPUPrimitives")) = 1
             /\ \A d \in InFrame(frame, "SDL_DrawGPUPrimitives") :
                   /\ frame[d].p[1] = 3
                   /\ frame[d].p[2] = 1
                   /\ \E b \in InFrame(frame, "SDL_BeginGPURenderPass") : b < d
                   /\ \E e \in InFrame(frame, "SDL_EndGPURenderPass") : d < e
                   /\ \A e \in InFrame(frame, "SDL_EndGPURenderPass") : d < e

C20_Witness ==
    /\ TriangleUploaded
    /\ \E n \in Frames :
          /\ DrawReturned(FrameOf(n))
          /\ InFrame(FrameOf(n), "SDL_DrawGPUPrimitives") # {}

(***************************************************************************)
(* C21.                                                                    *)
(***************************************************************************)
\* The updates of the history: the keyboard is read between two projections.
Updates == {k \in Ops("SDL_GetKeyboardState") : k > 1 /\ k < Len(calls)}
AngleBefore(k) == calls[k - 1].p[1]
KeysRead(k) == calls[k].p[1]
AngleSet(k) == calls[k + 1].p[1]

\* angle - 0.5 for `dec`, + 0.5 for `inc`, then the reset at +-360.
Turned(a, dec, inc) ==
    LET raw == a - (IF dec THEN 1 ELSE 0) + (IF inc THEN 1 ELSE 0)
    IN IF raw >= ANGLE_LIMIT \/ raw <= -ANGLE_LIMIT THEN 0 ELSE raw

\* C21 as stated: in every app::update A or Left turns the angle down by
\* 0.5, D or Right up by 0.5, the result is reset to 0 at +-360 and beyond,
\* and the angle stays strictly inside (-360, 360).
C21_ArrowsTurnEverywhere ==
    \A k \in Updates :
       /\ AngleSet(k) = Turned(AngleBefore(k),
                               "a" \in KeysRead(k) \/ "left" \in KeysRead(k),
                               "d" \in KeysRead(k) \/ "right" \in KeysRead(k))
       /\ AngleSet(k) > -ANGLE_LIMIT /\ AngleSet(k) < ANGLE_LIMIT

\* C21: in the second copy of main.cpp A or Left turns the angle down by 0.5
\* and D or Right up by 0.5; in the first copy only A and D do and the arrow
\* keys are ignored.  In both the result is reset to 0 at +-360 and beyond,
\* so the angle stays strictly inside (-360, 360).
C21_AngleTurnsAndStaysInside ==
    /\ angle > -ANGLE_LIMIT /\ angle < ANGLE_LIMIT
    /\ \A k \in Updates :
          /\ AngleSet(k) =
                Turned(AngleBefore(k),
                       "a" \in KeysRead(k)
                          \/ (variant = "refactored" /\ "left" \in KeysRead(k)),
                       "d" \in KeysRead(k)
                          \/ (variant = "refactored" /\ "right" \in KeysRead(k)))
          /\ AngleSet(k) > -ANGLE_LIMIT /\ AngleSet(k) < ANGLE_LIMIT

\* The angle stood at 359.5, D or the right arrow was down, and it is 0 now.
C21_Witness ==
    /\ variant = "refactored"
    /\ \E k \in Updates :
          /\ AngleBefore(k) = ANGLE_LIMIT - 1
          /\ KeysRead(k) = {"right"}
          /\ AngleSet(k) = 0
    /\ angle = 0

(***************************************************************************)
(* C22.                                                                    *)
(***************************************************************************)
\* C22: the instanced-shapes program creates no instance buffer and binds
\* one vertex buffer only, and every indexed draw of a frame has the index
\* count given to init and the instance count 16.
C22_SixteenInstancesAlways ==
    variant = "instanced" =>
       /\ \A k \in Ops("SDL_CreateGPUBuffer") : calls[k].h # "instance_buffer"
       /\ \A k \in Ops("SDL_BindGPUVertexBuffers") :
             /\ "instance_buffer" \notin calls[k].args
             /\ calls[k].p = <<0, 1>>
       /\ \A n \in Frames :
             /\ DrawReturned(FrameOf(n)) =>
                   Cardinality(InFrame(FrameOf(n), "SDL_DrawGPUIndexedPrimitives")) = 1
             /\ \A d \in InFrame(FrameOf(n), "SDL_DrawGPUIndexedPrimitives") :
                   FrameOf(n)[d].p = <<payload.i, LITERAL_INSTANCES>>

\* Two frames of the instanced program were drawn.
C22_Witness ==
    /\ variant = "instanced"
    /\ MeshCounts(variant).instance_count # LITERAL_INSTANCES
    /\ \E n, m \in Frames :
          /\ n # m
          /\ DrawReturned(FrameOf(n)) /\ DrawReturned(FrameOf(m))
          /\ InFrame(FrameOf(n), "SDL_DrawGPUIndexedPrimitives") # {}

(***************************************************************************)
(* C23.                                                                    *)
(***************************************************************************)
Diagnostics == Ops("msg::error")
CheckedCalls == {k \in Idx : calls[k].checked}

\* C23: a check that holds prints nothing and the caller goes on; a check
\* that fails prints the diagnostic of the failed call and nothing runs
\* after it: the diagnostic is the last entry of the history and main is
\* aborted.  A diagnostic is printed for failed checks only.
C23_ErrorReturnsOnlyOnTrue ==
    /\ \A k \in CheckedCalls :
          IF calls[k].ok
          THEN k < Len(calls) => calls[k + 1].op # "msg::error"
          ELSE /\ Len(calls) = k + 1
               /\ calls[k + 1].op = "msg::error"
               /\ calls[k + 1].args = {calls[k].h}
               /\ pc = "aborted"
    /\ \A d \in Diagnostics :
          /\ d > 1
          /\ calls[d - 1].checked
          /\ ~calls[d - 1].ok
    /\ pc = "aborted" => (calls # <<>> /\ calls[Len(calls)].op = "msg::error")

\* A check failed after other checks had passed.
C23_Witness ==
    /\ pc = "aborted"
    /\ Diagnostics # {}
    /\ \E k \in CheckedCalls : calls[k].ok

(***************************************************************************)
(* C24.                                                                    *)
(***************************************************************************)
\* What the update that just ran appended to the history.
Appended == SubSeq(calls', Len(calls) + 1, Len(calls'))

\* The digits (1..6) of the keys that were down.
DigitsDown(keys) == {d \in 1..6 : <<"1", "2", "3", "4", "5", "6">>[d] \in keys}
LowestDigit(keys) == CHOOSE d \in DigitsDown(keys) : \A e \in DigitsDown(keys) : d <= e

\* C24: the sampler index is 5 after init and always in 0..5; an update sets
\* it to the lowest digit key down minus one, keeps it when no digit key is
\* down, and prints the change message exactly when the index changed.
C24_SamplerIndexValid ==
    /\ active_sampler = 5
    /\ [](active_sampler \in 0..5)
    /\ [][Appended # <<>> =>
            LET keys == Appended[1].p[1] IN
            /\ active_sampler' = IF DigitsDown(keys) = {} THEN active_sampler
                                 ELSE LowestDigit(keys) - 1
            /\ (Len(Appended) = 2) <=> (active_sampler' # active_sampler)
            /\ Len(Appended) = 2 =>
                  /\ Appended[2].op = "msg::info"
                  /\ Appended[2].p = <<active_sampler'>>]_vars

\* Keys 2 and 4 were down together and sampler 1 was chosen, with a message.
C24_Witness ==
    /\ Len(calls) >= 2
    /\ calls[1].p[1] = {"2", "4"}
    /\ calls[2].op = "msg::info"
    /\ active_sampler = 1

(***************************************************************************)
(* C25.                                                                    *)
(***************************************************************************)
\* The draws main has started: each one begins by asking for a command buffer.
DrawsStarted == At("draw", "SDL_AcquireGPUCommandBuffer")
Polls == Ops("SDL_PollEvent")
LoopLeft == pc \in {Epilogue(variant)[k] : k \in 1..Len(Epilogue(variant))} \cup {"returned"}

\* C25: after a poll that left the quit flag set, at most one draw is
\* started, and exactly one once the loop is left; when the flag was set by
\* app::update instead, no draw is started after that update.  No draw is
\* started after the scene was destroyed.
C25_OneMoreDrawAfterPollQuit ==
    /\ \A k \in Polls :
          calls[k].p = <<TRUE>> =>
             /\ Cardinality({d \in DrawsStarted : d > k}) <= 1
             /\ LoopLeft => Cardinality({d \in DrawsStarted : d > k}) = 1
    /\ (quit /\ \A k \in Polls : calls[k].p = <<FALSE>>) =>
          /\ variant = "refactored"
          /\ Of("update") # {}
          /\ \A d \in DrawsStarted : \E u \in Of("update") : d < u /\ calls[u].it = iter
    /\ \A x \in Of("destroy_scene") \cup Of("destroy_context") \cup Of("return") :
          \A d \in Of("draw") : d < x

\* The single-file program drew once after its poll set the flag, then left.
C25_Witness ==
    /\ variant = "single"
    /\ pc = "returned"
    /\ iter < MaxFrames
    /\ \E k \in Polls :
          /\ calls[k].p = <<TRUE>>
          /\ Cardinality({d \in DrawsStarted : d > k}) = 1

(***************************************************************************)
(* C26.                                                                    *)
(***************************************************************************)
\* The size (in words) buffer h was created with, and the sizes uploaded to it.
CreatedSizes(h) ==
    {calls[k].p[1] : k \in {j \in Ops("SDL_CreateGPUBuffer") : calls[j].h = h /\ calls[j].ok}}
UploadedSizes(h) ==
    {calls[k].p[2] : k \in {j \in Ops("SDL_UploadToGPUBuffer") : h \in calls[j].args}}

\* The payload main hands over for buffer h, in words.
PayloadWords(h) ==
    CASE h = "vertex_buffer" -> Len(payload.mesh.vertices) * VERTEX_WORDS
      [] h = "index_buffer" -> Len(payload.mesh.indices)
      [] h = "instance_buffer" -> MeshCounts(variant).instance_count * MAT4_WORDS

\* C26: in the refactored program every buffer is created with the size of
\* the payload uploaded into it; the index buffer holds index_count 32-bit
\* indices, the instance buffer instance_count matrices of 64 bytes, every
\* index is below vertex_count, and the indexed draw asks for no more
\* indices or instances than were uploaded.
C26_DrawStaysInsideUploads ==
    variant = "refactored" =>
       /\ \A h \in {"vertex_buffer", "index_buffer", "instance_buffer"} :
             /\ CreatedSizes(h) \subseteq {PayloadWords(h)}
             /\ UploadedSizes(h) \subseteq CreatedSizes(h)
       /\ MeshCounts(variant).vertex_count = Len(payload.mesh.vertices)
       /\ \A k \in 1..Len(payload.mesh.indices) :
             /\ payload.mesh.indices[k] >= 0
             /\ payload.mesh.indices[k] < MeshCounts(variant).vertex_count
       /\ \A d \in At("draw", "SDL_DrawGPUIndexedPrimitives") :
             /\ {calls[d].p[1]} = CreatedSizes("index_buffer")
             /\ {calls[d].p[2] * MAT4_WORDS} = CreatedSizes("instance_buffer")
             /\ {calls[d].p[1]} = UploadedSizes("index_buffer")
             /\ {calls[d].p[2] * MAT4_WORDS} = UploadedSizes("instance_buffer")

\* The cube was uploaded and drawn.
C26_Witness ==
    /\ variant = "refactored"
    /\ UploadedSizes("vertex_buffer") # {}
    /\ UploadedSizes("instance_buffer") # {}
    /\ \E d \in At("draw", "SDL_DrawGPUIndexedPrimitives") : calls[d].p[1] = CUBE_INDICES

(***************************************************************************)
(* C27.                                                                    *)
(***************************************************************************)
PipelinesMade == {k \in Ops("SDL_CreateGPUGraphicsPipeline") : calls[k].ok}
Thrown == Ops("std::out_of_range")

\* C27: init_scene makes one pipeline per description, in the order of the
\* descriptions, and pipelines are made in init_scene and released in the
\* destruction of the scene only; a frame ends its render pass and submits
\* only with two descriptions or more, and with fewer the access throws
\* after the pass was begun and nothing of the frame follows.
C27_OnePipelinePerDescription ==
    /\ \A k \in PipelinesMade : calls[k].fn = "init_scene"
    /\ \A k \in Ops("SDL_ReleaseGPUGraphicsPipeline") :
          calls[k].fn \in {"destroy_scene", "return"}
    /\ Cardinality(PipelinesMade) <= payload.descs
    /\ \A j, k \in PipelinesMade :
          (j < k) => (calls[j].h = PipelineName(0) /\ calls[k].h = PipelineName(1))
    /\ Of("draw") # {} => Cardinality(PipelinesMade) = payload.descs
    /\ \A n \in Frames :
          LET frame == FrameOf(n) IN
          /\ InFrame(frame, "SDL_EndGPURenderPass") # {} => payload.descs >= 2
          /\ InFrame(frame, "SDL_SubmitGPUCommandBuffer") # {} => payload.descs >= 2
          /\ (payload.descs < 2 /\ DrawReturned(frame)) =>
                /\ frame[Len(frame)].op = "std::out_of_range"
                /\ InFrame(frame, "SDL_BeginGPURenderPass") # {}
                /\ Cardinality(InFrame(frame, "SDL_BindGPUGraphicsPipeline")) = payload.descs
                /\ pc = "terminated"

\* One description was supplied and the frame broke off at the second bind.
C27_Witness ==
    /\ payload.descs = 1
    /\ Cardinality(PipelinesMade) = 1
    /\ Thrown # {}
    /\ Ops("SDL_DrawGPUIndexedPrimitives") # {}

(***************************************************************************)
(* C28.                                                                    *)
(***************************************************************************)
\* C28: the pixel data read_image_file returns is as long as the file
\* without its header; the offset of every sub-image is the decoder's
\* position of it in the file less the header, and each word of the
\* sub-image, read at that offset of the pixel data, is the word the file
\* holds at header + offset.
C28_OffsetsIntoStrippedData ==
    Decoded =>
       /\ Len(texture.data) = file.size - file.data_offset
       /\ texture.size = Len(texture.data)
       /\ \A k \in 1..Len(texture.sub_images) :
             LET si == texture.sub_images[k]
                 sub == ddsktx_get_sub(file, si.layer_index, si.mipmap_index)
             IN /\ si.offset = (sub.buff - 0) - file.data_offset
                /\ \A j \in 0..(SubImageWords(si) - 1) :
                      /\ si.offset + j + 1 \in DOMAIN texture.data
                      /\ texture.data[si.offset + j + 1]
                            = FileWords(file)[file.data_offset + si.offset + j + 1]

\* The last sub-image of a file with several layers and mips was decoded and
\* does not start the pixel data.
C28_Witness ==
    /\ Decoded
    /\ Len(texture.sub_images) = MaxLayers * MaxMips
    /\ texture.sub_images[Len(texture.sub_images)].offset > 0
    /\ Len(texture.data) > 0
    /\ Len(texture.data) < file.size

(***************************************************************************)
(* C29.                                                                    *)
(***************************************************************************)
\* Triangle t of an index list as it is wound, and the triples that name
\* the same wound triangle.
Wound(indices, t) == <<indices[3 * t + 1], indices[3 * t + 2], indices[3 * t + 3]>>
Rotations(w) == {w, <<w[2], w[3], w[1]>>, <<w[3], w[1], w[2]>>}

Highest(indices) ==
    CHOOSE x \in {indices[k] : k \in 1..Len(indices)} :
       \A k \in 1..Len(indices) : indices[k] <= x

\* The index list of the other cube program.
OtherCube ==
    make_cube(IF variant = "single" THEN "refactored" ELSE "single").indices

\* C29: the index list the program built and the list of the other cube
\* program have 36 indices with maximum 23 each, and triangle by triangle
\* they name the same vertices in the same winding, up to rotation.
C29_CubeGeneratorsAgree ==
    CubeProgram =>
       LET mine == payload.mesh.indices IN
       /\ Len(mine) = 36 /\ Len(OtherCube) = 36
       /\ Highest(mine) = 23 /\ Highest(OtherCube) = 23
       /\ \A t \in 0..11 : Wound(mine, t) \in Rotations(Wound(OtherCube, t))

\* The computed list is in use and differs from the written one as a list.
C29_Witness ==
    /\ variant = "single"
    /\ payload.mesh.indices # OtherCube
    /\ payload.mesh.indices = make_cube("single").indices
    /\ Wound(payload.mesh.indices, 1) = <<0, 2, 3>>
    /\ Wound(OtherCube, 1) = <<2, 3, 0>>
    /\ Ops("SDL_DrawGPUIndexedPrimitives") # {}

(***************************************************************************)
(* C30.                                                                    *)
(***************************************************************************)
CommandOps == BindOps \cup DrawOps \cup {"SDL_PushGPUVertexUniformData"}

\* The bind, push and draw commands of a frame with their arguments.
Commands(frame) ==
    LET cs == SelectSeq(frame, LAMBDA e : e.op \in CommandOps)
    IN [k \in 1..Len(cs) |-> <<cs[k].op, cs[k].args, cs[k].p>>]

\* The view-projection bytes and the sampler a frame was drawn with.
Pushed(frame) ==
    {frame[k].p : k \in InFrame(frame, "SDL_PushGPUVertexUniformData")}
Sampled(frame) ==
    {frame[k].args : k \in InFrame(frame, "SDL_BindGPUFragmentSamplers")}

\* C30: a draw leaves the owned handles, the counts and the selected sampler
\* of the scene as they are, its indexed draw takes the index count given to
\* init, and two frames drawn with the same view-projection bytes and the
\* same scene issue the same bind, push and draw commands with the same
\* arguments.
C30_DrawLeavesSceneAlone ==
    /\ [][pc = "draw" =>
            /\ owned' = owned
            /\ payload' = payload
            /\ active_sampler' = active_sampler
            /\ texture' = texture]_vars
    /\ [](\A n, m \in Frames :
             LET a == FrameOf(n)
                 b == FrameOf(m)
             IN (/\ DrawReturned(a) /\ DrawReturned(b)
                 /\ Pushed(a) = Pushed(b)
                 /\ Sampled(a) = Sampled(b)) => Commands(a) = Commands(b))
    /\ [](\A d \in At("draw", "SDL_DrawGPUIndexedPrimitives") : calls[d].p[1] = payload.i)

\* Two frames of the single-file program were drawn with the same sampler.
C30_Witness ==
    /\ variant = "single"
    /\ \E n, m \in Frames :
          /\ n # m
          /\ DrawReturned(FrameOf(n)) /\ DrawReturned(FrameOf(m))
          /\ Sampled(FrameOf(n)) = Sampled(FrameOf(m))
          /\ Commands(FrameOf(n)) # <<>>

====
